---- MODULE Spec2Model ----
(***************************************************************************)
(* Model of the github-gemini MCP server: the content fetch, the tree      *)
(* walk, the important-file selection, the repository harvest              *)
(* (github_client.py), the AI calls (gemini_client.py) and the tool        *)
(* dispatcher (__init__.py).                                               *)
(*                                                                         *)
(* Strings, tool names among them, are sequences of Unicode code points;   *)
(* a directory path is a sequence of name components.                      *)
(***************************************************************************)
EXTENDS Integers, Sequences, FiniteSets, TLC

VARIABLES
    file,        \* what repository.get_contents(path) answers for the fetched file
    max_size,    \* the max_size argument of _get_file_content_safe
    fetched,     \* the outcome of _get_file_content_safe, NotCalled before the call
    remote,      \* the hosted repository: directory path -> its listing
    failing,     \* the directory paths whose listing call raises
    depth_arg,   \* the max_depth argument of _get_repository_structure
    walked,      \* the outcome of _get_repository_structure, NotCalled before the call
    git_tree,    \* what repository.get_git_tree(branch, recursive=True) answers
    contents_of, \* path -> what repository.get_contents(path) answers for that file
    files_arg,   \* the max_files argument of _get_important_files
    selected,    \* the outcome of _get_important_files, NotCalled before the call
    rate_limit_remaining, \* GitHubClient._rate_limit_remaining
    hub_failing, \* the hosting-API endpoints (other than contents and tree) that raise
    readme_of,   \* README candidate -> what repository.get_contents answers for it
    include_content, \* the include_content argument of analyze_repository
    harvested,   \* the outcome of analyze_repository, NotCalled before the call
    ai_failing,  \* the AI-API endpoints that raise
    large_input, \* whether the serialized repository data has 1024 characters or more
    unserializable, \* whether the handler's value is one json.dumps rejects
    issues,      \* what repository.get_issues answers, in order
    pc,          \* the serving loop: "idle", "handling", "returned" or "crashed"
    name,        \* the tool name of the call being served
    arguments,   \* the arguments mapping of the call being served
    returned,    \* what handle_call_tool handed back for the call being served
    prev_failed, \* whether the call served before this one ended in an error
    cache_store, \* GeminiClient._cache_store
    frames,      \* the walk in steps: the _build_tree_structure calls not yet returned
    listings,    \* the walk in steps: the paths listed so far, in order
    tasks,       \* the event loop: task -> where its tool call stands
    running      \* the event loop: the task that has the thread, 0 when none has

fetchVars == <<file, max_size, fetched>>

treeVars == <<remote, failing, depth_arg, walked>>

selectVars == <<git_tree, contents_of, files_arg, selected>>

harvestVars == <<rate_limit_remaining, hub_failing, readme_of, include_content, harvested>>

vars ==
    <<file, max_size, fetched, remote, failing, depth_arg, walked,
      git_tree, contents_of, files_arg, selected,
      rate_limit_remaining, hub_failing, readme_of, include_content, harvested,
      ai_failing, large_input, unserializable, issues,
      pc, name, arguments, returned, prev_failed, cache_store,
      frames, listings, tasks, running>>

walkVars == <<frames, listings>>

loopVars == <<tasks, running>>

serveVars ==
    <<ai_failing, large_input, unserializable, issues,
      pc, name, arguments, returned, prev_failed, cache_store>>

NotCalled == [pc |-> "not_called"]

(***************************************************************************)
(* Values of Optional[str] returned by the content fetch.                  *)
(***************************************************************************)
None == [kind |-> "none"]

Text(s) == [kind |-> "text", text |-> s]

\* f"[File too large: {file.size} bytes]"
TooLarge(n) == [kind |-> "too_large", size |-> n]

\* "[Binary file]"
BinaryFile == [kind |-> "binary"]

\* truthiness of an Optional[str]: None and "" are falsy
Truthy(v) == v.kind # "none" /\ (v.kind = "text" => v.text # <<>>)

(***************************************************************************)
(* base64.b64decode(s): non-ASCII input is a ValueError, characters        *)
(* outside the alphabet are discarded, a padded quad ends the input, and   *)
(* an unfinished quad is a binascii.Error.                                 *)
(***************************************************************************)
PadChar == 61

Sextet(c) ==
    IF c >= 65 /\ c <= 90 THEN c - 65
    ELSE IF c >= 97 /\ c <= 122 THEN c - 71
    ELSE IF c >= 48 /\ c <= 57 THEN c + 4
    ELSE IF c = 43 THEN 62
    ELSE IF c = 47 THEN 63
    ELSE 64

RECURSIVE A2bBase64(_, _, _, _, _, _)
A2bBase64(s, i, quad_pos, leftchar, pads, out) ==
    IF i > Len(s)
    THEN IF quad_pos # 0
         THEN [exc |-> "binascii.Error", bytes |-> <<>>]
         ELSE [exc |-> "", bytes |-> out]
    ELSE LET c == s[i] IN
         IF c = PadChar
         THEN IF quad_pos >= 2 /\ quad_pos + pads + 1 >= 4
              THEN [exc |-> "", bytes |-> out]
              ELSE A2bBase64(s, i + 1, quad_pos, leftchar,
                             IF quad_pos >= 2 THEN pads + 1 ELSE pads, out)
         ELSE IF Sextet(c) >= 64
         THEN A2bBase64(s, i + 1, quad_pos, leftchar, pads, out)
         ELSE LET v == Sextet(c) IN
              CASE quad_pos = 0 -> A2bBase64(s, i + 1, 1, v, 0, out)
                [] quad_pos = 1 ->
                     A2bBase64(s, i + 1, 2, v % 16, 0,
                               Append(out, leftchar * 4 + v \div 16))
                [] quad_pos = 2 ->
                     A2bBase64(s, i + 1, 3, v % 4, 0,
                               Append(out, leftchar * 16 + v \div 4))
                [] OTHER ->
                     A2bBase64(s, i + 1, 0, 0, 0,
                               Append(out, leftchar * 64 + v))

B64Decode(s) ==
    IF \E i \in 1..Len(s) : s[i] > 127
    THEN [exc |-> "ValueError", bytes |-> <<>>]
    ELSE A2bBase64(s, 1, 0, 0, 0, <<>>)

(***************************************************************************)
(* bytes.decode('utf-8', errors='ignore'): well-formed sequences become    *)
(* code points, every other byte is dropped.                               *)
(***************************************************************************)
IsCont(b) == b >= 128 /\ b <= 191

HasCont(bytes, i, n) ==
    /\ i + n <= Len(bytes)
    /\ \A k \in 1..n : IsCont(bytes[i + k])

RECURSIVE Utf8DecodeIgnore(_, _)
Utf8DecodeIgnore(bytes, i) ==
    IF i > Len(bytes) THEN <<>>
    ELSE LET b == bytes[i] IN
         IF b < 128
         THEN <<b>> \o Utf8DecodeIgnore(bytes, i + 1)
         ELSE IF b >= 194 /\ b <= 223 /\ HasCont(bytes, i, 1)
         THEN <<(b - 192) * 64 + (bytes[i + 1] - 128)>>
              \o Utf8DecodeIgnore(bytes, i + 2)
         ELSE IF /\ b >= 224 /\ b <= 239 /\ HasCont(bytes, i, 2)
                 /\ (b = 224 => bytes[i + 1] >= 160)
                 /\ (b = 237 => bytes[i + 1] <= 159)
         THEN <<(b - 224) * 4096 + (bytes[i + 1] - 128) * 64
                + (bytes[i + 2] - 128)>>
              \o Utf8DecodeIgnore(bytes, i + 3)
         ELSE IF /\ b >= 240 /\ b <= 244 /\ HasCont(bytes, i, 3)
                 /\ (b = 240 => bytes[i + 1] >= 144)
                 /\ (b = 244 => bytes[i + 1] <= 143)
         THEN <<(b - 240) * 262144 + (bytes[i + 1] - 128) * 4096
                + (bytes[i + 2] - 128) * 64 + (bytes[i + 3] - 128)>>
              \o Utf8DecodeIgnore(bytes, i + 4)
         ELSE Utf8DecodeIgnore(bytes, i + 1)

(***************************************************************************)
(* GitHubClient._get_file_content_safe                                     *)
(***************************************************************************)
TooLargeForInclusive(size, limit) == size >= limit

\* "Skip large files": the size test of the fetched ContentFile
TooLargeFor(size, limit) == size > limit

\* the body of the try block: the value returned or the exception raised,
\* whether the content was handed to the decoder, and the content that the
\* answer of repository.get_contents, the first statement, brought with it
FetchBody(f, limit) ==
    IF f.raises
    THEN [exc |-> "GithubException", value |-> None, decoded |-> FALSE,
          received |-> <<>>]
    ELSE IF TooLargeFor(f.size, limit)
    THEN [exc |-> "", value |-> TooLarge(f.size), decoded |-> FALSE,
          received |-> f.content]
    ELSE IF f.encoding = "base64"
    THEN LET d == B64Decode(f.content) IN
         IF d.exc # ""
         THEN [exc |-> d.exc, value |-> None, decoded |-> TRUE,
               received |-> f.content]
         ELSE [exc |-> "", value |-> Text(Utf8DecodeIgnore(d.bytes, 1)),
               decoded |-> TRUE, received |-> f.content]
    ELSE [exc |-> "", value |-> Text(f.content), decoded |-> FALSE,
          received |-> f.content]

\* the except clauses: UnicodeDecodeError, then Exception
FetchHandlers(r) ==
    IF r.exc = "" THEN r
    ELSE IF r.exc = "UnicodeDecodeError"
    THEN [r EXCEPT !.exc = "", !.value = BinaryFile]
    ELSE [r EXCEPT !.exc = "", !.value = None]

GetFileContentSafe(f, limit) == FetchHandlers(FetchBody(f, limit))

(***************************************************************************)
(* Inputs of the content fetch.                                            *)
(***************************************************************************)
MaxContentLen == 4

DefaultMaxSize == 100000

\* 'w' '6' 'k' '/' '=' and a line feed: "w6k=" is U+00E9, "/w==" is the byte FF
ContentChars == {119, 54, 107, 47, 61, 10}

RECURSIVE SeqsUpTo(_, _)
SeqsUpTo(S, n) ==
    IF n = 0 THEN {<<>>}
    ELSE LET shorter == SeqsUpTo(S, n - 1) IN
         shorter \cup {Append(s, x) : s \in {t \in shorter : Len(t) = n - 1}, x \in S}

Range(seq) == {seq[i] : i \in DOMAIN seq}

RECURSIVE SubsetsUpTo(_, _)
SubsetsUpTo(S, n) ==
    IF n = 0 THEN {{}}
    ELSE LET smaller == SubsetsUpTo(S, n - 1) IN
         smaller \cup {s \cup {x} : s \in smaller, x \in S}

Contents == SeqsUpTo(ContentChars, MaxContentLen)

FileSizes == {0, 1, DefaultMaxSize, DefaultMaxSize + 1}

MaxSizes == {0, DefaultMaxSize}

RaisingFile == [raises |-> TRUE, size |-> 0, encoding |-> "none", content |-> <<>>]

Files ==
    {RaisingFile} \cup
    [raises : {FALSE}, size : FileSizes, encoding : {"base64", "none"},
     content : Contents]

(***************************************************************************)
(* The hosted repository seen through repository.get_contents(path).       *)
(***************************************************************************)
GetContents(rem, fl, path) ==
    IF path \in fl
    THEN [raises |-> TRUE, value |-> <<>>]
    ELSE [raises |-> FALSE, value |-> rem[path]]

(***************************************************************************)
(* GitHubClient._build_tree_structure and _get_repository_structure.       *)
(* A walk answers the structure and the listing calls it made, in order.   *)
(***************************************************************************)
\* {}
EmptyDict == <<>>

\* {"files": [], "directories": {}}
EmptyNode == [files |-> <<>>, directories |-> EmptyDict]

\* the node stored for a directory whose listing raised
FailedDirNode == EmptyNode

\* the structure returned when the root listing raised
FailedRootStructure == EmptyDict

DepthReachedOffByOne(current_depth, max_depth) == current_depth > max_depth

\* the walk without its depth test
DepthNeverReached(current_depth, max_depth) == FALSE

\* if current_depth >= max_depth: return structure
DepthReached(current_depth, max_depth) == current_depth >= max_depth

FileEntry(content) ==
    [name |-> content.name, path |-> content.path,
     size |-> content.size, type |-> content.type]

\* the try body for one "dir" entry: list it, then walk the listing
\* (DirBody and TreeLoop call each other through BuildTreeStructure)
WalkRaised(calls) == [exc |-> "GithubException", structure |-> EmptyDict, calls |-> calls]

DirHandlerReraise(r) == r

\* except Exception: the directory is stored as an empty node
DirHandler(r) ==
    IF r.exc = "" THEN r
    ELSE [exc |-> "", structure |-> FailedDirNode, calls |-> r.calls]

RECURSIVE BuildTreeStructure(_, _, _, _, _)
RECURSIVE TreeLoop(_, _, _, _, _, _, _)
BuildTreeStructure(rem, fl, contents, max_depth, current_depth) ==
    IF DepthReached(current_depth, max_depth)
    THEN [exc |-> "", structure |-> EmptyNode, calls |-> <<>>]
    ELSE TreeLoop(rem, fl, contents, 1,
                  [exc |-> "", structure |-> EmptyNode, calls |-> <<>>],
                  max_depth, current_depth)

TreeLoop(rem, fl, contents, i, acc, max_depth, current_depth) ==
    IF i > Len(contents) THEN acc
    ELSE LET content == contents[i] IN
         IF content.type = "file"
         THEN TreeLoop(rem, fl, contents, i + 1,
                       [acc EXCEPT !.structure.files = Append(@, FileEntry(content))],
                       max_depth, current_depth)
         ELSE IF content.type = "dir"
         THEN LET subcontents == GetContents(rem, fl, content.path)
                  body == IF subcontents.raises
                          THEN WalkRaised(<<>>)
                          ELSE BuildTreeStructure(rem, fl, subcontents.value,
                                                  max_depth, current_depth + 1)
                  sub == DirHandler(body)
                  calls == acc.calls \o <<content.path>> \o sub.calls
              IN  IF sub.exc # ""
                  THEN WalkRaised(calls)
                  ELSE TreeLoop(rem, fl, contents, i + 1,
                                [exc |-> "",
                                 structure |->
                                    [acc.structure EXCEPT !.directories =
                                        (content.name :> sub.structure) @@ @],
                                 calls |-> calls],
                                max_depth, current_depth)
         ELSE TreeLoop(rem, fl, contents, i + 1, acc, max_depth, current_depth)

\* except Exception: return {}
RootHandler(r) ==
    IF r.exc = "" THEN r
    ELSE [exc |-> "", structure |-> FailedRootStructure, calls |-> r.calls]

GetRepositoryStructure(rem, fl, max_depth) ==
    LET contents == GetContents(rem, fl, <<>>)
        body == IF contents.raises
                THEN WalkRaised(<<>>)
                ELSE BuildTreeStructure(rem, fl, contents.value, max_depth, 0)
    IN  RootHandler([body EXCEPT !.calls = <<<<>>>> \o @])

(***************************************************************************)
(* Inputs of the tree walk: repositories whose root has one listing shape  *)
(* and whose other directories have another, down to some depth.           *)
(***************************************************************************)
MaxRemoteDepth == 3

MaxDepthArg == 2

MaxFailures == 1

DirNames == {"a", "b"}

DirPaths == SeqsUpTo(DirNames, MaxRemoteDepth)

F(n) == [name |-> n, type |-> "file", size |-> 7]

D(n) == [name |-> n, type |-> "dir", size |-> 0]

L(n) == [name |-> n, type |-> "symlink", size |-> 0]

Shapes ==
    { <<>>, <<D("a")>>, <<F("f"), D("a"), D("b")>>,
      <<D("a"), L("l"), D("b"), F("f")>> }

Listing(path, shape, leaf) ==
    LET kept == SelectSeq(shape, LAMBDA e : ~leaf \/ e.type # "dir") IN
    [i \in 1..Len(kept) |->
        [name |-> kept[i].name, path |-> Append(path, kept[i].name),
         size |-> kept[i].size, type |-> kept[i].type]]

DirsIn(shape) == {shape[i].name : i \in {j \in DOMAIN shape : shape[j].type = "dir"}}

\* the repository whose directories are the paths of at most depth names,
\* the first a directory of rootShape and the others of innerShape
RemoteOf(rootShape, innerShape, depth) ==
    LET Exists(p) ==
            /\ Len(p) <= depth
            /\ \A k \in DOMAIN p :
                  p[k] \in DirsIn(IF k = 1 THEN rootShape ELSE innerShape)
    IN  [p \in {q \in DirPaths : Exists(q)} |->
            Listing(p, IF p = <<>> THEN rootShape ELSE innerShape, Len(p) >= depth)]

Remotes ==
    {RemoteOf(r, s, d) : r \in Shapes, s \in Shapes, d \in 0..MaxRemoteDepth}

TreeInit ==
    /\ remote \in Remotes
    /\ failing \in SubsetsUpTo(DirPaths, MaxFailures)
    /\ depth_arg \in 0..MaxDepthArg
    /\ walked = NotCalled

TreeIdle ==
    /\ remote = [p \in {<<>>} |-> <<>>]
    /\ failing = {}
    /\ depth_arg = 0
    /\ walked = NotCalled

TreeCall ==
    /\ walked = NotCalled
    /\ walked' = GetRepositoryStructure(remote, failing, depth_arg)
    /\ UNCHANGED <<remote, failing, depth_arg>>

(***************************************************************************)
(* Python str operations on sequences of code points.                      *)
(***************************************************************************)
EndsWith(s, suffix) ==
    /\ Len(s) >= Len(suffix)
    /\ SubSeq(s, Len(s) - Len(suffix) + 1, Len(s)) = suffix

StartsWith(s, prefix) ==
    /\ Len(s) >= Len(prefix)
    /\ SubSeq(s, 1, Len(prefix)) = prefix

\* sub in s
Contains(s, sub) ==
    \E i \in 1..(Len(s) - Len(sub) + 1) : SubSeq(s, i, i + Len(sub) - 1) = sub

\* s.lower()
Lower(s) == [i \in DOMAIN s |-> IF s[i] >= 65 /\ s[i] <= 90 THEN s[i] + 32 ELSE s[i]]

(***************************************************************************)
(* GitHubClient._get_important_files                                       *)
(***************************************************************************)
\* important_extensions
ImportantExtensions ==
    { <<46, 112, 121>>,
      <<46, 106, 115>>,
      <<46, 116, 115>>,
      <<46, 106, 97, 118, 97>>,
      <<46, 99, 112, 112>>,
      <<46, 99>>,
      <<46, 104>>,
      <<46, 99, 115>>,
      <<46, 112, 104, 112>>,
      <<46, 114, 98>>,
      <<46, 103, 111>>,
      <<46, 114, 115>>,
      <<46, 115, 119, 105, 102, 116>>,
      <<46, 107, 116>>,
      <<46, 115, 99, 97, 108, 97>>,
      <<46, 114>>,
      <<46, 109>>,
      <<46, 109, 109>> }

\* important_files
ImportantFiles ==
    { <<82, 69, 65, 68, 77, 69, 46, 109, 100>>,
      <<82, 69, 65, 68, 77, 69, 46, 114, 115, 116>>,
      <<82, 69, 65, 68, 77, 69, 46, 116, 120, 116>>,
      <<112, 97, 99, 107, 97, 103, 101, 46, 106, 115, 111, 110>>,
      <<114, 101, 113, 117, 105, 114, 101, 109, 101, 110, 116, 115, 46, 116, 120, 116>>,
      <<67, 97, 114, 103, 111, 46, 116, 111, 109, 108>>,
      <<112, 111, 109, 46, 120, 109, 108>>,
      <<98, 117, 105, 108, 100, 46, 103, 114, 97, 100, 108, 101>>,
      <<68, 111, 99, 107, 101, 114, 102, 105, 108, 101>>,
      <<100, 111, 99, 107, 101, 114, 45, 99, 111, 109, 112, 111, 115, 101, 46, 121, 109, 108>>,
      <<115, 101, 116, 117, 112, 46, 112, 121>>,
      <<115, 101, 116, 117, 112, 46, 99, 102, 103>>,
      <<112, 121, 112, 114, 111, 106, 101, 99, 116, 46, 116, 111, 109, 108>>,
      <<109, 97, 105, 110, 46, 112, 121>>,
      <<105, 110, 100, 101, 120, 46, 106, 115>>,
      <<97, 112, 112, 46, 112, 121>> }

\* "test"
StrTest == <<116, 101, 115, 116>>

\* "spec"
StrSpec == <<115, 112, 101, 99>>

DefaultMaxFiles == 50

IsCode(path) == \E ext \in ImportantExtensions : EndsWith(path, ext)

\* every blob taken
IsImportantAlways(path) == TRUE

\* is_important
IsImportant(path) ==
    \/ path \in ImportantFiles
    \/ IsCode(path)
    \/ Contains(Lower(path), StrTest)
    \/ Contains(Lower(path), StrSpec)

LimitReachedOffByOne(file_count, max_files) == file_count > max_files

\* the loop without its break
LimitNeverReached(file_count, max_files) == FALSE

\* if file_count >= max_files: break
LimitReached(file_count, max_files) == file_count >= max_files

\* whatever the fetch answered is recorded
ContentAcceptedAlways(r) == TRUE

\* if file_content:
ContentAccepted(r) == r.exc = "" /\ Truthy(r.value)

FileRecord(item, file_content) ==
    [path |-> item.path, content |-> file_content, size |-> item.size,
     type |-> IF IsCode(item.path) THEN "code" ELSE "config"]

\* the for loop over contents.tree; acc holds the records, file_count, the
\* content fetches issued and the listing positions inspected
RECURSIVE SelectLoop(_, _, _, _, _)
SelectLoop(tree, contentOf, max_files, i, acc) ==
    IF i > Len(tree) \/ LimitReached(acc.file_count, max_files) THEN acc
    ELSE LET item == tree[i]
             seen == [acc EXCEPT !.inspected = Append(@, i)]
         IN  IF item.type = "blob" /\ IsImportant(item.path)
             THEN LET r == GetFileContentSafe(contentOf[item.path], DefaultMaxSize)
                      tried == [seen EXCEPT !.calls = Append(@, item.path)]
                  IN  IF ContentAccepted(r)
                      THEN SelectLoop(tree, contentOf, max_files, i + 1,
                               [tried EXCEPT
                                   !.files = Append(@, FileRecord(item, r.value)),
                                   !.file_count = @ + 1])
                      ELSE SelectLoop(tree, contentOf, max_files, i + 1, tried)
             ELSE SelectLoop(tree, contentOf, max_files, i + 1, seen)

NothingSelected ==
    [exc |-> "", files |-> <<>>, file_count |-> 0, calls |-> <<>>, inspected |-> <<>>]

\* get_git_tree raising is caught by the outer except: return []
GetImportantFiles(listing, contentOf, max_files) ==
    IF listing.raises THEN NothingSelected
    ELSE SelectLoop(listing.tree, contentOf, max_files, 1, NothingSelected)

(***************************************************************************)
(* Inputs of the selection: listings without repeated paths, and for each  *)
(* listed path what the content call answers.                              *)
(***************************************************************************)
MaxListing == 3

MaxFilesArg == 2

Blob(path, size) == [path |-> path, type |-> "blob", size |-> size]

\* "README.md", "docs/README.md", "src/main.py", "Latest.TXT", "LICENSE" and
\* the tree "src"
SampleItems ==
    { Blob(<<82, 69, 65, 68, 77, 69, 46, 109, 100>>, 12),
      Blob(<<76, 73, 67, 69, 78, 83, 69>>, 7),
      Blob(<<100, 111, 99, 115, 47, 82, 69, 65, 68, 77, 69, 46, 109, 100>>, 12),
      Blob(<<115, 114, 99, 47, 109, 97, 105, 110, 46, 112, 121>>, 5),
      Blob(<<76, 97, 116, 101, 115, 116, 46, 84, 88, 84>>, 3),
      [path |-> <<115, 114, 99>>, type |-> "tree", size |-> 0] }

\* a file that decodes to one character, an empty file, a file above the
\* size ceiling, and a content call that raises
SampleFiles ==
    { [raises |-> FALSE, size |-> 2, encoding |-> "base64", content |-> <<119, 54, 107, 61>>],
      [raises |-> FALSE, size |-> 0, encoding |-> "base64", content |-> <<>>],
      [raises |-> FALSE, size |-> DefaultMaxSize + 1, encoding |-> "base64",
       content |-> <<119, 54, 107, 61>>],
      RaisingFile }

Listings ==
    {t \in SeqsUpTo(SampleItems, MaxListing) : \A i, j \in DOMAIN t : i # j => t[i] # t[j]}

PathsOf(tree) == {tree[i].path : i \in DOMAIN tree}

SelectInit ==
    /\ git_tree \in [raises : {FALSE}, tree : Listings]
                    \cup {[raises |-> TRUE, tree |-> <<>>]}
    /\ contents_of \in [PathsOf(git_tree.tree) -> SampleFiles]
    /\ files_arg \in (-1)..MaxFilesArg
    /\ selected = NotCalled

SelectIdle ==
    /\ git_tree = [raises |-> TRUE, tree |-> <<>>]
    /\ contents_of = <<>>
    /\ files_arg = DefaultMaxFiles
    /\ selected = NotCalled

SelectCall ==
    /\ selected = NotCalled
    /\ selected' = GetImportantFiles(git_tree, contents_of, files_arg)
    /\ UNCHANGED <<git_tree, contents_of, files_arg>>

(***************************************************************************)
(* GitHubClient.analyze_repository: the quota check, then the stages of    *)
(* the try block in order.  A stage answers the value of its field and the *)
(* calls it made, or the exception it lets through.                        *)
(***************************************************************************)
InitialRateLimit == 5000

LowWatermark == 100

\* the delay taken at the watermark too
CheckRateLimitInclusive(remaining) ==
    [op |-> "check_rate_limit", delayed |-> remaining <= 100]

\* _check_rate_limit: sleeps one second when the budget is low, never raises
CheckRateLimit(remaining) ==
    [op |-> "check_rate_limit", delayed |-> remaining < LowWatermark]

Call(op) == [op |-> op]

DirCalls(paths) == [i \in DOMAIN paths |-> [op |-> "get_contents", dir |-> paths[i]]]

FileCalls(paths) == [i \in DOMAIN paths |-> [op |-> "get_contents", file |-> paths[i]]]

\* a helper of the form try: return <data> except Exception: return <fallback>
Guarded(fails, op, data, fallback) ==
    [exc |-> "", value |-> IF op \in fails THEN fallback ELSE data,
     calls |-> <<Call(op)>>]

\* a call made directly in the try block of analyze_repository
Unguarded(fails, op, data) ==
    IF op \in fails
    THEN [exc |-> "GithubException", value |-> None, calls |-> <<Call(op)>>]
    ELSE [exc |-> "", value |-> data, calls |-> <<Call(op)>>]

\* readme_files: "README.md", "README.rst", "README.txt", "README"
ReadmeFiles ==
    << <<82, 69, 65, 68, 77, 69, 46, 109, 100>>,
       <<82, 69, 65, 68, 77, 69, 46, 114, 115, 116>>,
       <<82, 69, 65, 68, 77, 69, 46, 116, 120, 116>>,
       <<82, 69, 65, 68, 77, 69>> >>

\* the try body of one README candidate
ReadmeBody(f) ==
    IF f.raises THEN [exc |-> "GithubException", value |-> None]
    ELSE IF f.encoding = "base64"
    THEN LET d == B64Decode(f.content) IN
         IF d.exc # "" THEN [exc |-> d.exc, value |-> None]
         ELSE [exc |-> "", value |-> Text(Utf8DecodeIgnore(d.bytes, 1))]
    ELSE [exc |-> "", value |-> Text(f.content)]

\* _get_readme_content: the first candidate that is fetched and decoded
RECURSIVE ReadmeLoop(_, _, _)
ReadmeLoop(readmeOf, i, calls) ==
    IF i > Len(ReadmeFiles) THEN [exc |-> "", value |-> None, calls |-> calls]
    ELSE LET r == ReadmeBody(readmeOf[ReadmeFiles[i]])
             made == calls \o FileCalls(<<ReadmeFiles[i]>>)
         IN  IF r.exc = "" THEN [exc |-> "", value |-> r.value, calls |-> made]
             ELSE ReadmeLoop(readmeOf, i + 1, made)

StructureMaxDepth == 3

\* the contributors asked for before the files are selected
HarvestStagesContributorsFirst ==
    << "get_repo", "languages", "topics", "structure", "commits", "issues",
       "pull_requests", "contributors", "code_files", "readme", "releases" >>

HarvestStages ==
    << "get_repo", "languages", "topics", "structure", "commits", "issues",
       "pull_requests", "code_files", "contributors", "readme", "releases" >>

\* what the hosting API answers when a call succeeds
RemoteData(stage) == <<stage>>

\* structure = await self._get_repository_structure(repository, max_depth=3)
StructureStage(w) == [exc |-> w.exc, value |-> w.structure, calls |-> DirCalls(w.calls)]

\* code_files = await self._get_important_files(repository, max_files)
CodeFilesStage(sel) ==
    [exc |-> sel.exc, value |-> sel.files,
     calls |-> <<Call("get_git_tree")>> \o FileCalls(sel.calls)]

\* the files are selected whatever include_content says
ContentWantedAlways(with_content) == TRUE

\* if include_content:
ContentWanted(with_content) == with_content

Stage(stage, env, with_content, max_files) ==
    CASE stage = "get_repo" ->
            Unguarded(env.hub_failing, "get_repo", RemoteData("repository"))
      [] stage = "languages" ->
            Guarded(env.hub_failing, "get_languages", RemoteData(stage), EmptyDict)
      [] stage = "topics" ->
            Unguarded(env.hub_failing, "get_topics", RemoteData(stage))
      [] stage = "structure" ->
            StructureStage(GetRepositoryStructure(env.remote, env.failing,
                                                  StructureMaxDepth))
      [] stage = "commits" ->
            Guarded(env.hub_failing, "get_commits", RemoteData(stage), <<>>)
      [] stage = "issues" ->
            Guarded(env.hub_failing, "get_issues", RemoteData(stage), <<>>)
      [] stage = "pull_requests" ->
            Guarded(env.hub_failing, "get_pulls", RemoteData(stage), <<>>)
      [] stage = "code_files" ->
            IF ContentWanted(with_content)
            THEN CodeFilesStage(GetImportantFiles(env.git_tree, env.contents_of,
                                                  max_files))
            ELSE [exc |-> "", value |-> <<>>, calls |-> <<>>]
      [] stage = "contributors" ->
            Guarded(env.hub_failing, "get_contributors", RemoteData(stage), <<>>)
      [] stage = "readme" -> ReadmeLoop(env.readme_of, 1, <<>>)
      [] stage = "releases" ->
            Guarded(env.hub_failing, "get_releases", RemoteData(stage), <<>>)

\* what the try block holds once one more stage has run
AfterStage(acc, stage, st) ==
    [exc |-> st.exc,
     fields |-> (stage :> st.value) @@ acc.fields,
     calls |-> acc.calls \o st.calls]

RECURSIVE RunStages(_, _, _, _, _)
RunStages(env, with_content, max_files, i, acc) ==
    IF i > Len(HarvestStages) \/ acc.exc # "" THEN acc
    ELSE RunStages(env, with_content, max_files, i + 1,
                   AfterStage(acc, HarvestStages[i],
                              Stage(HarvestStages[i], env, with_content, max_files)))

\* the dictionary analyze_repository returns
Snapshot(fields) ==
    [repository_info |->
        [full_name |-> fields["get_repo"], languages |-> fields["languages"],
         topics |-> fields["topics"]],
     structure |-> fields["structure"],
     recent_activity |->
        [commits |-> fields["commits"], issues |-> fields["issues"],
         pull_requests |-> fields["pull_requests"]],
     code_files |-> fields["code_files"],
     contributors |-> fields["contributors"],
     readme |-> fields["readme"],
     releases |-> fields["releases"]]

\* except GithubException / except Exception: log and raise
HarvestHandlers(r) ==
    IF r.exc # ""
    THEN [exc |-> r.exc, value |-> None, calls |-> r.calls]
    ELSE [exc |-> "", value |-> Snapshot(r.fields), calls |-> r.calls]

AnalyzeRepository(env, with_content, max_files) ==
    HarvestHandlers(RunStages(env, with_content, max_files, 1,
                              [exc |-> "", fields |-> <<>>,
                               calls |-> <<CheckRateLimit(env.remaining)>>]))

\* the hosting API as the state holds it
Hub ==
    [remaining |-> rate_limit_remaining, hub_failing |-> hub_failing,
     remote |-> remote, failing |-> failing,
     git_tree |-> git_tree, contents_of |-> contents_of, readme_of |-> readme_of,
     file |-> file, issues |-> issues, ai_failing |-> ai_failing,
     large_input |-> large_input, unserializable |-> unserializable]

(***************************************************************************)
(* The other operations of GitHubClient that the tools call.               *)
(***************************************************************************)
\* str(e): a plain text, the quoted key of a KeyError, or a text ending in a name
Message(text) == [text |-> text]

KeyErrorMessage(key) == [quoted |-> key]

UnknownMessage(text, tool) == [text |-> text, name |-> tool]

Raise(kind, text, calls) ==
    [exc |-> kind, message |-> Message(text), value |-> None, calls |-> calls]

Return(value, calls) ==
    [exc |-> "", message |-> Message(""), value |-> value, calls |-> calls]

SearchLimit == 30

IssueLimit == 50

Min(a, b) == IF a <= b THEN a ELSE b

RECURSIVE SearchLoop(_, _, _, _)
SearchLoop(hits, contentOf, i, acc) ==
    IF i > Len(hits) \/ i - 1 >= SearchLimit THEN acc
    ELSE LET r == GetFileContentSafe(contentOf[hits[i].path], DefaultMaxSize) IN
         SearchLoop(hits, contentOf, i + 1,
                    [results |->
                        IF r.exc = ""
                        THEN Append(acc.results, [path |-> hits[i].path, content |-> r.value])
                        ELSE acc.results,
                     calls |-> acc.calls \o FileCalls(<<hits[i].path>>)])

\* search_code: the hits are the blobs the hosting API lists
SearchCode(w) ==
    IF "search_code" \in w.hub_failing
    THEN Raise("GithubException", "search_code", <<Call("search_code")>>)
    ELSE LET hits == SelectSeq(w.git_tree.tree, LAMBDA item : item.type = "blob")
             found == SearchLoop(hits, w.contents_of, 1,
                                 [results |-> <<>>, calls |-> <<Call("search_code")>>])
         IN  Return([total_count |-> Len(hits), results |-> found.results], found.calls)

\* get_file_content: unlike the safe fetch it has no size ceiling and re-raises
GetFileContent(w) ==
    IF "get_repo" \in w.hub_failing
    THEN Raise("GithubException", "get_repo", <<Call("get_repo")>>)
    ELSE LET made == <<Call("get_repo"), Call("get_contents")>>
             r == ReadmeBody(w.file)
         IN  IF r.exc # "" THEN Raise(r.exc, r.exc, made) ELSE Return(r.value, made)

\* every listed entry examined
ExaminedAll(listed, limit) == listed

\* for i, issue in enumerate(issues): if i >= limit: break
Examined(listed, limit) == SubSeq(listed, 1, Min(limit, Len(listed)))

\* get_issues: the first `limit` answers, pull requests left out
GetIssues(w, limit) ==
    IF "get_repo" \in w.hub_failing
    THEN Raise("GithubException", "get_repo", <<Call("get_repo")>>)
    ELSE IF "get_issues" \in w.hub_failing
    THEN Raise("GithubException", "get_issues", <<Call("get_repo"), Call("get_issues")>>)
    ELSE Return(SelectSeq(Examined(w.issues, limit),
                          LAMBDA issue : ~issue.pull_request),
                <<Call("get_repo"), Call("get_issues")>>)

CreateIssue(w) ==
    IF "get_repo" \in w.hub_failing
    THEN Raise("GithubException", "get_repo", <<Call("get_repo")>>)
    ELSE IF "create_issue" \in w.hub_failing
    THEN Raise("GithubException", "create_issue", <<Call("get_repo"), Call("create_issue")>>)
    ELSE Return(RemoteData("created_issue"), <<Call("get_repo"), Call("create_issue")>>)

(***************************************************************************)
(* GeminiClient: the cache registration and the generation call.           *)
(***************************************************************************)
CacheThreshold == 1024

LongCodeThreshold == 2000

AiCall(op) == [ai |-> op]

\* _create_cached_content: None for short content, and None when the call raises
CreateCachedContent(length, w) ==
    IF length < CacheThreshold THEN [value |-> None, calls |-> <<>>]
    ELSE IF "caches.create" \in w.ai_failing
    THEN [value |-> None, calls |-> <<AiCall("caches.create")>>]
    ELSE [value |-> Text(<<"cache">>), calls |-> <<AiCall("caches.create")>>]

\* the names of the cached contents registered among these calls
CachedNames(calls) ==
    {Text(<<"cache">>) : i \in {j \in DOMAIN calls : calls[j] = AiCall("caches.create")}}

\* the client keeping the names of the contents it registered
CacheStoreKeepingNames(store, calls) ==
    [n \in DOMAIN store \cup CachedNames(calls) |-> TRUE]

\* self._cache_store after a call: it is set to {} when the client is made
\* and no method writes it; _create_cached_content hands cache.name to its
\* caller and keeps nothing
CacheStoreAfter(store, calls) == store

\* _generate_with_thinking: logs and re-raises
GenerateWithThinking(w, calls) ==
    IF "generate_content" \in w.ai_failing
    THEN Raise("APIError", "generate_content", Append(calls, AiCall("generate_content")))
    ELSE Return(RemoteData("ai_text"), Append(calls, AiCall("generate_content")))

AnalyzeCode(code, w) ==
    LET cached == IF code.length > LongCodeThreshold
                  THEN CreateCachedContent(code.length, w)
                  ELSE [value |-> None, calls |-> <<>>]
    IN  GenerateWithThinking(w, cached.calls)

\* suggest_improvements and generate_documentation
GenerateOnly(w) == GenerateWithThinking(w, <<>>)

\* the generation call, on record with the data its prompt holds
WithPrompt(r, data) ==
    [r EXCEPT !.calls = SubSeq(r.calls, 1, Len(r.calls) - 1)
                            \o <<[ai |-> "generate_content", prompt |-> data]>>]

\* the length of json.dumps(repo_data), which the model does not spell out
JsonLength(w) == IF w.large_input THEN CacheThreshold ELSE CacheThreshold - 1

\* analyze_repository_structure: the prompt holds json.dumps(repo_data)
AnalyzeRepositoryStructure(repo_data, w) ==
    IF w.unserializable THEN Raise("TypeError", "not JSON serializable", <<>>)
    ELSE WithPrompt(GenerateWithThinking(w, CreateCachedContent(JsonLength(w), w).calls),
                    repo_data)

\* triage_issues: the prompt holds json.dumps(issues)
TriageIssues(found, w) ==
    IF w.unserializable THEN Raise("TypeError", "not JSON serializable", <<>>)
    ELSE WithPrompt(GenerateWithThinking(w, <<>>), found)

(***************************************************************************)
(* The dispatcher: handle_call_tool and the three family handlers.         *)
(***************************************************************************)
\* "github_"
StrGithubPrefix == <<103, 105, 116, 104, 117, 98, 95>>

\* "gemini_"
StrGeminiPrefix == <<103, 101, 109, 105, 110, 105, 95>>

\* "analysis_"
StrAnalysisPrefix == <<97, 110, 97, 108, 121, 115, 105, 115, 95>>

\* "analyze_repository"
StrAnalyzeRepository == <<97, 110, 97, 108, 121, 122, 101, 95, 114, 101, 112, 111, 115, 105, 116, 111, 114, 121>>

\* "search_code"
StrSearchCode == <<115, 101, 97, 114, 99, 104, 95, 99, 111, 100, 101>>

\* "get_file_content"
StrGetFileContent == <<103, 101, 116, 95, 102, 105, 108, 101, 95, 99, 111, 110, 116, 101, 110, 116>>

\* "get_issues"
StrGetIssues == <<103, 101, 116, 95, 105, 115, 115, 117, 101, 115>>

\* "create_issue"
StrCreateIssue == <<99, 114, 101, 97, 116, 101, 95, 105, 115, 115, 117, 101>>

\* "analyze_code"
StrAnalyzeCode == <<97, 110, 97, 108, 121, 122, 101, 95, 99, 111, 100, 101>>

\* "suggest_improvements"
StrSuggestImprovements == <<115, 117, 103, 103, 101, 115, 116, 95, 105, 109, 112, 114, 111, 118, 101, 109, 101, 110, 116, 115>>

\* "generate_documentation"
StrGenerateDocumentation == <<103, 101, 110, 101, 114, 97, 116, 101, 95, 100, 111, 99, 117, 109, 101, 110, 116, 97, 116, 105, 111, 110>>

\* "comprehensive_repo_analysis"
StrComprehensiveRepoAnalysis == <<99, 111, 109, 112, 114, 101, 104, 101, 110, 115, 105, 118, 101, 95, 114, 101, 112, 111, 95, 97, 110, 97, 108, 121, 115, 105, 115>>

\* "smart_issue_triage"
StrSmartIssueTriage == <<115, 109, 97, 114, 116, 95, 105, 115, 115, 117, 101, 95, 116, 114, 105, 97, 103, 101>>

\* str.replace(old, ""): every occurrence, left to right
RECURSIVE RemoveAll(_, _)
RemoveAll(s, old) ==
    IF Len(s) < Len(old) \/ old = <<>> THEN s
    ELSE IF StartsWith(s, old)
    THEN RemoveAll(SubSeq(s, Len(old) + 1, Len(s)), old)
    ELSE <<Head(s)>> \o RemoveAll(Tail(s), old)

\* name.replace(prefix, "")
StripPrefix(s, prefix) == RemoveAll(s, prefix)

\* the tools handle_list_tools advertises, with their "required" lists
ListedTools ==
    { [name |-> StrGithubPrefix \o StrAnalyzeRepository, required |-> {"owner", "repo"}],
      [name |-> StrGithubPrefix \o StrSearchCode, required |-> {"query"}],
      [name |-> StrGithubPrefix \o StrGetFileContent, required |-> {"owner", "repo", "path"}],
      [name |-> StrGithubPrefix \o StrGetIssues, required |-> {"owner", "repo"}],
      [name |-> StrGithubPrefix \o StrCreateIssue, required |-> {"owner", "repo", "title"}],
      [name |-> StrGeminiPrefix \o StrAnalyzeCode, required |-> {"code"}],
      [name |-> StrGeminiPrefix \o StrSuggestImprovements, required |-> {"code"}],
      [name |-> StrGeminiPrefix \o StrGenerateDocumentation, required |-> {"code"}],
      [name |-> StrAnalysisPrefix \o StrComprehensiveRepoAnalysis, required |-> {"owner", "repo"}],
      [name |-> StrAnalysisPrefix \o StrSmartIssueTriage, required |-> {"owner", "repo"}] }

ListedNames == {t.name : t \in ListedTools}

\* the client operation a name is routed to and the arguments[...] it
\* subscripts, in evaluation order
Target(op, subscripts) ==
    [op |-> op, subscripts |-> subscripts, unknown |-> FALSE, message |-> Message("")]

Unknown(message) ==
    [op |-> "", subscripts |-> <<>>, unknown |-> TRUE, message |-> message]

HandleGithubTool(tool) ==
    LET tool_name == StripPrefix(tool, StrGithubPrefix) IN
    IF tool_name = StrAnalyzeRepository
    THEN Target("github.analyze_repository", <<"owner", "repo">>)
    ELSE IF tool_name = StrSearchCode
    THEN Target("github.search_code", <<"query">>)
    ELSE IF tool_name = StrGetFileContent
    THEN Target("github.get_file_content", <<"owner", "repo", "path">>)
    ELSE IF tool_name = StrGetIssues
    THEN Target("github.get_issues", <<"owner", "repo">>)
    ELSE IF tool_name = StrCreateIssue
    THEN Target("github.create_issue", <<"owner", "repo", "title">>)
    ELSE Unknown(UnknownMessage("Unknown GitHub tool: ", tool_name))

HandleGeminiTool(tool) ==
    LET tool_name == StripPrefix(tool, StrGeminiPrefix) IN
    IF tool_name = StrAnalyzeCode
    THEN Target("gemini.analyze_code", <<"code">>)
    ELSE IF tool_name = StrSuggestImprovements
    THEN Target("gemini.suggest_improvements", <<"code">>)
    ELSE IF tool_name = StrGenerateDocumentation
    THEN Target("gemini.generate_documentation", <<"code">>)
    ELSE Unknown(UnknownMessage("Unknown Gemini tool: ", tool_name))

HandleAnalysisTool(tool) ==
    LET tool_name == StripPrefix(tool, StrAnalysisPrefix) IN
    IF tool_name = StrComprehensiveRepoAnalysis
    THEN Target("analysis.comprehensive_repo_analysis", <<"owner", "repo">>)
    ELSE IF tool_name = StrSmartIssueTriage
    THEN Target("analysis.smart_issue_triage", <<"owner", "repo">>)
    ELSE Unknown(UnknownMessage("Unknown analysis tool: ", tool_name))

\* the analysis_ family left out of the routing
RouteWithoutAnalysis(tool) ==
    IF StartsWith(tool, StrGithubPrefix) THEN HandleGithubTool(tool)
    ELSE IF StartsWith(tool, StrGeminiPrefix) THEN HandleGeminiTool(tool)
    ELSE Unknown(UnknownMessage("Unknown tool: ", tool))

Route(tool) ==
    IF StartsWith(tool, StrGithubPrefix) THEN HandleGithubTool(tool)
    ELSE IF StartsWith(tool, StrGeminiPrefix) THEN HandleGeminiTool(tool)
    ELSE IF StartsWith(tool, StrAnalysisPrefix) THEN HandleAnalysisTool(tool)
    ELSE Unknown(UnknownMessage("Unknown tool: ", tool))

\* the first subscript alone checked, the others read with a default
MissingKeysFirstOnly(args, subscripts) ==
    SelectSeq(SubSeq(subscripts, 1, 1), LAMBDA k : k \notin DOMAIN args)

\* the subscripts whose key the mapping lacks, in evaluation order
MissingKeys(args, subscripts) == SelectSeq(subscripts, LAMBDA k : k \notin DOMAIN args)

\* arguments.get(key, default)
Get(args, key, default) == IF key \in DOMAIN args THEN args[key] ELSE default

\* combined repository analysis: the harvest, then the AI call on its snapshot
\* the harvested data returned with an absent analysis when the AI call raises
RepoAnalysisResultPartial(repo_data, analysis) ==
    Return([repository_data |-> repo_data.value,
            ai_analysis |-> IF analysis.exc # "" THEN None ELSE analysis.value],
           repo_data.calls \o analysis.calls)

\* return {"repository_data": repo_data, "ai_analysis": analysis}
RepoAnalysisResult(repo_data, analysis) ==
    IF analysis.exc # ""
    THEN Raise(analysis.exc, analysis.message.text, repo_data.calls \o analysis.calls)
    ELSE Return([repository_data |-> repo_data.value, ai_analysis |-> analysis.value],
                repo_data.calls \o analysis.calls)

\* the AI call on the harvest's snapshot, unless the harvest raised
AnalyzeHarvest(repo_data, w) ==
    IF repo_data.exc # ""
    THEN Raise(repo_data.exc, repo_data.exc, repo_data.calls)
    ELSE RepoAnalysisResult(repo_data, AnalyzeRepositoryStructure(repo_data.value, w))

\* the harvest run as the call's arguments say
HarvestContentFromArguments(args) == Get(args, "include_content", TRUE)

\* include_content=True
HarvestContent(args) == TRUE

ComprehensiveRepoAnalysis(args, w) ==
    AnalyzeHarvest(AnalyzeRepository(w, HarvestContent(args), DefaultMaxFiles), w)

\* issue triage: the open issues, then the AI call on them
SmartIssueTriage(w) ==
    LET found == GetIssues(w, IssueLimit) IN
    IF found.exc # "" THEN found
    ELSE LET triage == TriageIssues(found.value, w) IN
         IF triage.exc # ""
         THEN Raise(triage.exc, triage.message.text, found.calls \o triage.calls)
         ELSE Return([issues |-> found.value, triage_analysis |-> triage.value],
                     found.calls \o triage.calls)

\* an outcome of the harvest with the str(e) of its exception
WithMessage(r) ==
    [exc |-> r.exc, message |-> Message(r.exc), value |-> r.value, calls |-> r.calls]

\* the awaited client operation of each branch
Invoke(op, args, w) ==
    CASE op = "github.analyze_repository" ->
            WithMessage(AnalyzeRepository(w, Get(args, "include_content", TRUE),
                                          DefaultMaxFiles))
      [] op = "github.search_code" -> SearchCode(w)
      [] op = "github.get_file_content" -> GetFileContent(w)
      [] op = "github.get_issues" -> GetIssues(w, IssueLimit)
      [] op = "github.create_issue" -> CreateIssue(w)
      [] op = "gemini.analyze_code" -> AnalyzeCode(args["code"], w)
      [] op = "gemini.suggest_improvements" -> GenerateOnly(w)
      [] op = "gemini.generate_documentation" -> GenerateOnly(w)
      [] op = "analysis.comprehensive_repo_analysis" ->
            ComprehensiveRepoAnalysis(args, w)
      [] op = "analysis.smart_issue_triage" -> SmartIssueTriage(w)

\* the three handle_*_tool calls: routing, argument subscripts, the operation
Dispatch(tool, args, w) ==
    LET target == Route(tool) IN
    IF target.unknown
    THEN [exc |-> "ValueError", message |-> target.message, value |-> None, calls |-> <<>>]
    ELSE LET missing == MissingKeys(args, target.subscripts) IN
         IF missing # <<>>
         THEN [exc |-> "KeyError", message |-> KeyErrorMessage(missing[1]),
               value |-> None, calls |-> <<>>]
         ELSE Invoke(target.op, args, w)

\* json.dumps(result, indent=2)
JsonDumps(r, w) ==
    IF r.exc # "" THEN r
    ELSE IF w.unserializable THEN Raise("TypeError", "not JSON serializable", r.calls)
    ELSE r

\* types.TextContent(type="text", text=...)
TextContent(text) == [type |-> "text", text |-> text]

\* the text json.dumps produces for a value
JsonText(value) == [json |-> value]

\* json.dumps({"error": str(e)})
ErrorTextAsJson(message) == [json |-> [error |-> message]]

\* f"Error: {str(e)}"
ErrorText(message) == [plain |-> "Error: ", message |-> message]

\* except ValueError as e: anything else goes on to the caller
CallHandlerValueErrorOnly(r) ==
    IF r.exc = ""
    THEN [exc |-> "", inner |-> r,
          content |-> <<[type |-> "text", text |-> [json |-> r.value]]>>]
    ELSE IF r.exc = "ValueError"
    THEN [exc |-> "", inner |-> r,
          content |-> <<[type |-> "text",
                         text |-> [plain |-> "Error: ", message |-> r.message]]>>]
    ELSE [exc |-> r.exc, inner |-> r, content |-> <<>>]

\* the return of the try body, and `except Exception as e`: one text item
\* either way; `inner` keeps what the try body did, for the record
CallHandler(r) ==
    IF r.exc = ""
    THEN [exc |-> "", inner |-> r, content |-> <<TextContent(JsonText(r.value))>>]
    ELSE [exc |-> "", inner |-> r, content |-> <<TextContent(ErrorText(r.message))>>]

HandleCallTool(tool, args, w) == CallHandler(JsonDumps(Dispatch(tool, args, w), w))

(***************************************************************************)
(* Inputs of the harvest.                                                  *)
(***************************************************************************)
HubOps ==
    { "get_repo", "get_languages", "get_topics", "get_commits", "get_issues",
      "get_pulls", "get_contributors", "get_releases" }

OkFile ==
    [raises |-> FALSE, size |-> 2, encoding |-> "base64", content |-> <<119, 54, 107, 61>>]

\* no README; README.md; README.md missing and README.rst present but undecodable,
\* README.txt in plain text
Readmes ==
    { [n \in Range(ReadmeFiles) |-> RaisingFile],
      [n \in Range(ReadmeFiles) |-> IF n = ReadmeFiles[1] THEN OkFile ELSE RaisingFile],
      [n \in Range(ReadmeFiles) |->
          IF n = ReadmeFiles[2]
          THEN [raises |-> FALSE, size |-> 1, encoding |-> "base64", content |-> <<119>>]
          ELSE IF n = ReadmeFiles[3]
          THEN [raises |-> FALSE, size |-> 1, encoding |-> "none", content |-> <<119>>]
          ELSE RaisingFile] }

HarvestRemote == RemoteOf(<<F("f"), D("a"), D("b")>>, <<D("a")>>, 2)

HarvestListing ==
    << Blob(<<82, 69, 65, 68, 77, 69, 46, 109, 100>>, 12),
       Blob(<<115, 114, 99, 47, 109, 97, 105, 110, 46, 112, 121>>, 5) >>

HarvestInit ==
    /\ rate_limit_remaining = InitialRateLimit
    /\ hub_failing \in SUBSET HubOps
    /\ remote = HarvestRemote
    /\ failing \in {{}, {<<>>}, {<<"a">>}}
    /\ depth_arg = StructureMaxDepth
    /\ walked = NotCalled
    /\ git_tree \in {[raises |-> TRUE, tree |-> <<>>],
                     [raises |-> FALSE, tree |-> HarvestListing]}
    /\ contents_of \in [PathsOf(git_tree.tree) -> {OkFile, RaisingFile}]
    /\ files_arg = DefaultMaxFiles
    /\ selected = NotCalled
    /\ readme_of \in Readmes
    /\ include_content \in BOOLEAN
    /\ harvested = NotCalled

HarvestIdle ==
    /\ rate_limit_remaining = InitialRateLimit
    /\ hub_failing = {}
    /\ readme_of = <<>>
    /\ include_content = TRUE
    /\ harvested = NotCalled

HarvestCall ==
    /\ harvested = NotCalled
    /\ harvested' = AnalyzeRepository(Hub, include_content, files_arg)
    /\ UNCHANGED <<rate_limit_remaining, hub_failing, readme_of, include_content>>

FetchInit ==
    /\ file \in Files
    /\ max_size \in MaxSizes
    /\ fetched = NotCalled

FetchIdle ==
    /\ file = RaisingFile
    /\ max_size = DefaultMaxSize
    /\ fetched = NotCalled

FetchCall ==
    /\ fetched = NotCalled
    /\ fetched' = GetFileContentSafe(file, max_size)
    /\ UNCHANGED <<file, max_size>>

(***************************************************************************)
(* Inputs of the dispatcher: tool names, arguments mappings, and the       *)
(* condition of the two remote services while one call is served.          *)
(***************************************************************************)
MaxPrefixes == 2

Prefixes == {StrGithubPrefix, StrGeminiPrefix, StrAnalysisPrefix}

\* "frobnicate"
StrFrobnicate == <<102, 114, 111, 98, 110, 105, 99, 97, 116, 101>>

\* what may follow the prefixes: a registered tool's own name, nothing, or junk
Tails ==
    { StrAnalyzeRepository, StrSearchCode, StrGetFileContent, StrGetIssues,
      StrCreateIssue, StrAnalyzeCode, StrSuggestImprovements,
      StrGenerateDocumentation, StrComprehensiveRepoAnalysis, StrSmartIssueTriage,
      StrFrobnicate, <<>> }

RECURSIVE PrefixRuns(_)
PrefixRuns(n) ==
    IF n = 0 THEN {<<>>}
    ELSE PrefixRuns(n - 1) \cup {p \o run : p \in Prefixes, run \in PrefixRuns(n - 1)}

ToolNames == {run \o tail : run \in PrefixRuns(MaxPrefixes), tail \in Tails}

ArgumentKeys == {"owner", "repo", "path", "query", "title", "code"}

\* code just short enough to go uncached, and just long enough to be cached
CodeSamples == {[length |-> LongCodeThreshold], [length |-> LongCodeThreshold + 1]}

ArgumentsOf(keys, code, with_flag) ==
    [k \in keys \cup (IF with_flag THEN {"include_content"} ELSE {}) |->
        IF k = "code" THEN code
        ELSE IF k = "include_content" THEN FALSE
        ELSE <<k>>]

\* every subset of the keys a handler subscripts, with or without
\* include_content=False
ArgumentSets ==
    {ArgumentsOf(keys, code, with_flag) :
        keys \in SUBSET ArgumentKeys, code \in CodeSamples, with_flag \in BOOLEAN}

AiOps == {"caches.create", "generate_content"}

SampleIssues ==
    << [number |-> 1, pull_request |-> FALSE],
       [number |-> 2, pull_request |-> TRUE],
       [number |-> 3, pull_request |-> FALSE] >>

\* more open entries than get_issues examines: pull requests at the second
\* place and at the last place examined, issues everywhere else
LongIssues ==
    [i \in 1..(IssueLimit + 2) |->
        [number |-> i, pull_request |-> (i = 2 \/ i = IssueLimit)]]

\* both services answering every call
QuietWorld ==
    [remaining |-> InitialRateLimit, hub_failing |-> {},
     remote |-> HarvestRemote, failing |-> {},
     git_tree |-> [raises |-> FALSE, tree |-> HarvestListing],
     contents_of |-> [p \in PathsOf(HarvestListing) |-> OkFile],
     readme_of |-> [n \in Range(ReadmeFiles) |->
                       IF n = ReadmeFiles[1] THEN OkFile ELSE RaisingFile],
     file |-> OkFile, issues |-> SampleIssues, ai_failing |-> {},
     large_input |-> FALSE, unserializable |-> FALSE]

\* one thing going wrong at a time, on either service
Worlds ==
    {QuietWorld}
    \cup {[QuietWorld EXCEPT !.hub_failing = {op}] :
             op \in HubOps \cup {"search_code", "create_issue"}}
    \cup {[QuietWorld EXCEPT !.ai_failing = ops, !.large_input = large] :
             ops \in SUBSET AiOps, large \in BOOLEAN}
    \cup {[QuietWorld EXCEPT !.file = f] :
             f \in {RaisingFile,
                    [raises |-> FALSE, size |-> 1, encoding |-> "base64",
                     content |-> <<47>>],
                    [raises |-> FALSE, size |-> 1, encoding |-> "none",
                     content |-> <<119>>]}}
    \cup {[QuietWorld EXCEPT !.git_tree = [raises |-> TRUE, tree |-> <<>>],
                             !.contents_of = <<>>],
          [QuietWorld EXCEPT !.failing = {<<>>}],
          [QuietWorld EXCEPT !.issues = LongIssues],
          [QuietWorld EXCEPT !.unserializable = TRUE]}

\* the services' condition matters to a call only once it gets past routing
\* and argument extraction
ReachesClient(tool, args) ==
    /\ ~Route(tool).unknown
    /\ MissingKeys(args, Route(tool).subscripts) = <<>>

WorldsFor(tool, args) == IF ReachesClient(tool, args) THEN Worlds ELSE {QuietWorld}

\* no walk in steps under way
WalkIdle ==
    /\ frames = <<>>
    /\ listings = <<>>

\* no task on the event loop
LoopIdle ==
    /\ tasks = <<>>
    /\ running = 0

ServeIdle ==
    /\ ai_failing = {}
    /\ large_input = FALSE
    /\ unserializable = FALSE
    /\ issues = <<>>
    /\ pc = "idle"
    /\ name = <<>>
    /\ arguments = <<>>
    /\ returned = NotCalled
    /\ prev_failed = FALSE
    /\ cache_store = EmptyDict

\* the serving loop reads a tools/call request
Receive ==
    /\ pc = "idle"
    /\ \E tool \in ToolNames, args \in ArgumentSets :
          \E w \in WorldsFor(tool, args) :
              /\ name' = tool
              /\ arguments' = args
              /\ hub_failing' = w.hub_failing
              /\ remote' = w.remote
              /\ failing' = w.failing
              /\ git_tree' = w.git_tree
              /\ contents_of' = w.contents_of
              /\ readme_of' = w.readme_of
              /\ file' = w.file
              /\ issues' = w.issues
              /\ ai_failing' = w.ai_failing
              /\ large_input' = w.large_input
              /\ unserializable' = w.unserializable
    /\ pc' = "handling"
    /\ UNCHANGED <<max_size, fetched, depth_arg, walked, files_arg, selected,
                   rate_limit_remaining, include_content, harvested,
                   returned, prev_failed, cache_store, walkVars, loopVars>>

\* handle_call_tool runs; an exception it lets out ends the serving loop
Serve ==
    /\ pc = "handling"
    /\ returned' = HandleCallTool(name, arguments, Hub)
    /\ pc' = IF returned'.exc = "" THEN "returned" ELSE "crashed"
    /\ cache_store' = CacheStoreAfter(cache_store, returned'.inner.calls)
    /\ UNCHANGED <<fetchVars, treeVars, selectVars, harvestVars,
                   ai_failing, large_input, unserializable, issues,
                   name, arguments, prev_failed, walkVars, loopVars>>

\* the content goes back to the client and the loop waits for the next request
Reply ==
    /\ pc = "returned"
    /\ pc' = "idle"
    /\ prev_failed' = (returned.inner.exc # "")
    /\ name' = <<>>
    /\ arguments' = <<>>
    /\ returned' = NotCalled
    /\ file' = RaisingFile
    /\ remote' = [p \in {<<>>} |-> <<>>]
    /\ failing' = {}
    /\ git_tree' = [raises |-> TRUE, tree |-> <<>>]
    /\ contents_of' = <<>>
    /\ hub_failing' = {}
    /\ readme_of' = <<>>
    /\ ai_failing' = {}
    /\ large_input' = FALSE
    /\ unserializable' = FALSE
    /\ issues' = <<>>
    /\ UNCHANGED <<max_size, fetched, depth_arg, walked, files_arg, selected,
                   rate_limit_remaining, include_content, harvested, cache_store,
                   walkVars, loopVars>>

Init == FetchIdle /\ TreeIdle /\ SelectIdle /\ HarvestIdle /\ ServeIdle /\ WalkIdle /\ LoopIdle

Next == Receive \/ Serve \/ Reply

Spec == Init /\ [][Next]_vars

InitFetch == FetchInit /\ TreeIdle /\ SelectIdle /\ HarvestIdle /\ ServeIdle /\ WalkIdle /\ LoopIdle

NextFetch == FetchCall /\ UNCHANGED <<treeVars, selectVars, harvestVars, serveVars,
        walkVars, loopVars>>

SpecFetch == InitFetch /\ [][NextFetch]_vars

InitTree == TreeInit /\ FetchIdle /\ SelectIdle /\ HarvestIdle /\ ServeIdle /\ WalkIdle /\ LoopIdle

NextTree == TreeCall /\ UNCHANGED <<fetchVars, selectVars, harvestVars, serveVars,
        walkVars, loopVars>>

SpecTree == InitTree /\ [][NextTree]_vars

InitSelect == SelectInit /\ FetchIdle /\ TreeIdle /\ HarvestIdle /\ ServeIdle /\ WalkIdle /\ LoopIdle

NextSelect == SelectCall /\ UNCHANGED <<fetchVars, treeVars, harvestVars, serveVars,
        walkVars, loopVars>>

SpecSelect == InitSelect /\ [][NextSelect]_vars

InitHarvest == HarvestInit /\ FetchIdle /\ ServeIdle /\ WalkIdle /\ LoopIdle

\* values of _rate_limit_remaining on both sides of the watermark
QuotaSamples == {0, LowWatermark - 1, LowWatermark, LowWatermark + 1, InitialRateLimit}

\* the harvest, its quota check reading any of the sampled budgets
QuotaInit ==
    /\ rate_limit_remaining \in QuotaSamples
    /\ hub_failing \in SUBSET HubOps
    /\ remote = HarvestRemote
    /\ failing = {}
    /\ depth_arg = StructureMaxDepth
    /\ walked = NotCalled
    /\ git_tree = [raises |-> FALSE, tree |-> HarvestListing]
    /\ contents_of = [p \in PathsOf(HarvestListing) |-> OkFile]
    /\ files_arg = DefaultMaxFiles
    /\ selected = NotCalled
    /\ readme_of = [n \in Range(ReadmeFiles) |->
                       IF n = ReadmeFiles[1] THEN OkFile ELSE RaisingFile]
    /\ include_content \in BOOLEAN
    /\ harvested = NotCalled

InitQuota == QuotaInit /\ FetchIdle /\ ServeIdle /\ WalkIdle /\ LoopIdle

NextQuota == HarvestCall /\ UNCHANGED <<fetchVars, treeVars, selectVars, serveVars,
        walkVars, loopVars>>

SpecQuota == InitQuota /\ [][NextQuota]_vars

NextHarvest == HarvestCall /\ UNCHANGED <<fetchVars, treeVars, selectVars, serveVars,
        walkVars, loopVars>>

SpecHarvest == InitHarvest /\ [][NextHarvest]_vars

(***************************************************************************)
(* The walk in steps: one step for each listing call, for each entry the   *)
(* for loop passes and for each return of _build_tree_structure.           *)
(***************************************************************************)
\* a call of _build_tree_structure that has not returned: its contents, the
\* entry its for loop is at, the structure built so far and current_depth
Frame(contents, current_depth) ==
    [contents |-> contents, i |-> 1, structure |-> EmptyNode, depth |-> current_depth]

Top == frames[Len(frames)]

TopEntry == Top.contents[Top.i]

\* the innermost call is over: the depth test returns at once, or the loop
\* has passed the last entry
TopReturns == DepthReached(Top.depth, depth_arg) \/ Top.i > Len(Top.contents)

\* what the innermost call returns
TopResult == IF DepthReached(Top.depth, depth_arg) THEN EmptyNode ELSE Top.structure

\* the innermost call with node stored under the name of the entry it is at
Stored(frame, node) ==
    [frame EXCEPT !.structure.directories = (frame.contents[frame.i].name :> node) @@ @,
                  !.i = @ + 1]

\* the nesting the model follows a walk to: deeper than any walk goes
FrameCap == MaxDepthArg + 3

\* contents = repository.get_contents("", ...), then the outermost call
WalkBegin ==
    /\ walked = NotCalled
    /\ frames = <<>>
    /\ listings = <<>>
    /\ listings' = <<<<>>>>
    /\ LET contents == GetContents(remote, failing, <<>>) IN
       IF contents.raises
       THEN /\ walked' = RootHandler(WalkRaised(<<<<>>>>))
            /\ frames' = <<>>
       ELSE /\ frames' = <<Frame(contents.value, 0)>>
            /\ walked' = walked
    /\ UNCHANGED <<remote, failing, depth_arg>>

\* if content.type == "file": append its entry
WalkFile ==
    /\ frames # <<>>
    /\ ~TopReturns
    /\ TopEntry.type = "file"
    /\ frames' = [frames EXCEPT ![Len(frames)] =
                     [@ EXCEPT !.structure.files = Append(@, FileEntry(TopEntry)),
                               !.i = @ + 1]]
    /\ UNCHANGED <<listings, treeVars>>

\* an entry that is neither a file nor a directory is passed over
WalkSkip ==
    /\ frames # <<>>
    /\ ~TopReturns
    /\ TopEntry.type \notin {"file", "dir"}
    /\ frames' = [frames EXCEPT ![Len(frames)].i = @ + 1]
    /\ UNCHANGED <<listings, treeVars>>

\* elif content.type == "dir": list it, then enter the call one level down,
\* or store the empty node when the listing raises
WalkList ==
    /\ frames # <<>>
    /\ ~TopReturns
    /\ TopEntry.type = "dir"
    /\ listings' = Append(listings, TopEntry.path)
    /\ LET subcontents == GetContents(remote, failing, TopEntry.path)
           handled == DirHandler(WalkRaised(<<>>))
       IN  IF ~subcontents.raises
           THEN /\ Len(frames) < FrameCap
                /\ frames' = Append(frames, Frame(subcontents.value, Top.depth + 1))
                /\ walked' = walked
           ELSE IF handled.exc = ""
           THEN /\ frames' = [frames EXCEPT ![Len(frames)] = Stored(@, handled.structure)]
                /\ walked' = walked
           ELSE /\ frames' = <<>>
                /\ walked' = RootHandler(WalkRaised(listings'))
    /\ UNCHANGED <<remote, failing, depth_arg>>

\* return structure: to the call one level up, or to _get_repository_structure
WalkReturn ==
    /\ frames # <<>>
    /\ TopReturns
    /\ IF Len(frames) = 1
       THEN /\ frames' = <<>>
            /\ walked' = RootHandler([exc |-> "", structure |-> TopResult,
                                      calls |-> listings])
       ELSE /\ frames' = SubSeq(frames, 1, Len(frames) - 2)
                            \o <<Stored(frames[Len(frames) - 1], TopResult)>>
            /\ walked' = walked
    /\ UNCHANGED <<listings, remote, failing, depth_arg>>

(***************************************************************************)
(* Inputs of the walk in steps: a repository deeper than any max_depth     *)
(* tried, a directory that lists itself, and a directory that lists the    *)
(* root again.                                                             *)
(***************************************************************************)
Entry(n, path, type) == [name |-> n, path |-> path, size |-> 0, type |-> type]

\* a/ holds an entry a that is a/ itself, and so without end
SelfListingRemote ==
    (<<>> :> <<Entry("f", <<"f">>, "file"), Entry("a", <<"a">>, "dir")>>)
    @@ (<<"a">> :> <<Entry("a", <<"a">>, "dir"), Entry("f", <<"a", "f">>, "file"),
                     Entry("b", <<"a">>, "dir")>>)

\* a/ holds an entry up that is the root
BackToRootRemote ==
    (<<>> :> <<Entry("a", <<"a">>, "dir"), Entry("l", <<"l">>, "symlink"),
               Entry("b", <<"b">>, "dir")>>)
    @@ (<<"a">> :> <<Entry("up", <<>>, "dir")>>)
    @@ (<<"b">> :> <<Entry("f", <<"b", "f">>, "file")>>)

WalkRemotes ==
    { RemoteOf(<<F("f"), D("a"), D("b")>>, <<D("a"), L("l"), D("b"), F("f")>>,
               MaxRemoteDepth),
      RemoteOf(<<D("a")>>, <<>>, 1),
      SelfListingRemote, BackToRootRemote }

WalkInit ==
    /\ remote \in WalkRemotes
    /\ failing \in SubsetsUpTo({<<>>, <<"a">>, <<"b">>, <<"a", "b">>}, MaxFailures)
    /\ depth_arg \in 0..(MaxDepthArg + 1)
    /\ walked = NotCalled

InitWalk ==
    WalkInit /\ WalkIdle /\ FetchIdle /\ SelectIdle /\ HarvestIdle /\ ServeIdle /\ LoopIdle

NextWalk ==
    /\ WalkBegin \/ WalkFile \/ WalkSkip \/ WalkList \/ WalkReturn
    /\ UNCHANGED <<fetchVars, selectVars, harvestVars, serveVars, loopVars>>

\* every listing call returns or raises, and the interpreter goes on
SpecWalk == InitWalk /\ [][NextWalk]_vars /\ WF_vars(NextWalk)

(***************************************************************************)
(* The event loop: asyncio.run(main()) runs every tool call as a coroutine *)
(* on one thread.  A coroutine keeps the thread until it awaits something  *)
(* that suspends it.  The clients' hosting-API calls (PyGithub) and the    *)
(* generation call (client.models.generate_content) are plain function     *)
(* calls, made without an executor, and the one await that can suspend,    *)
(* asyncio.sleep(1) in the quota check, is not reached while the budget    *)
(* stands at 5000.  Requests are taken to be handled as separate tasks.    *)
(***************************************************************************)
MaxTasks == 2

Tasks == 1..MaxTasks

\* the tool calls the tasks make, each with every argument given
LoopTools ==
    { StrGithubPrefix \o StrGetIssues, StrGithubPrefix \o StrAnalyzeRepository,
      StrGeminiPrefix \o StrSuggestImprovements,
      StrAnalysisPrefix \o StrSmartIssueTriage }

LoopArguments == ArgumentsOf(ArgumentKeys, [length |-> LongCodeThreshold], FALSE)

\* the quota check and the remote calls the handler of a tool makes, in order
CallsOf(tool) == HandleCallTool(tool, LoopArguments, QuietWorld).inner.calls

\* a call to the hosting API or to the AI service
IsExternal(call) ==
    IF "ai" \in DOMAIN call THEN TRUE ELSE call.op # "check_rate_limit"

AbsentTask == [pc |-> "absent", tool |-> <<>>, todo |-> <<>>]

LoopInit ==
    /\ tasks = [t \in Tasks |-> AbsentTask]
    /\ running = 0

\* the loop is free to run the handler of a request that waits
CanStart(t) == running = 0 /\ tasks[t].pc = "queued"

\* a tools/call request reaches the process
Arrive(t) ==
    /\ tasks[t].pc = "absent"
    /\ \E tool \in LoopTools :
          tasks' = [tasks EXCEPT ![t] = [pc |-> "queued", tool |-> tool, todo |-> <<>>]]
    /\ UNCHANGED running

\* the loop reads the request and runs handle_call_tool for it
Start(t) ==
    /\ CanStart(t)
    /\ tasks' = [tasks EXCEPT ![t] = [@ EXCEPT !.pc = "running", !.todo = CallsOf(tasks[t].tool)]]
    /\ running' = t

\* await self._check_rate_limit(): it returns without suspending
QuotaCheck(t) ==
    /\ running = t
    /\ tasks[t].pc = "running"
    /\ tasks[t].todo # <<>>
    /\ ~IsExternal(Head(tasks[t].todo))
    /\ ~Head(tasks[t].todo).delayed
    /\ tasks' = [tasks EXCEPT ![t].todo = Tail(@)]
    /\ UNCHANGED running

\* the coroutine calls into PyGithub or generate_content and waits there for
\* the remote service, on the loop's thread
BeginCall(t) ==
    /\ running = t
    /\ tasks[t].pc = "running"
    /\ tasks[t].todo # <<>>
    /\ IsExternal(Head(tasks[t].todo))
    /\ tasks' = [tasks EXCEPT ![t].pc = "in_call"]
    /\ UNCHANGED running

\* the remote service answers, or the call fails
CallReturns(t) ==
    /\ tasks[t].pc = "in_call"
    /\ tasks' = [tasks EXCEPT ![t] = [@ EXCEPT !.pc = "running", !.todo = Tail(@)]]
    /\ UNCHANGED running

\* handle_call_tool returns its content and the coroutine ends
Finish(t) ==
    /\ running = t
    /\ tasks[t].pc = "running"
    /\ tasks[t].todo = <<>>
    /\ tasks' = [tasks EXCEPT ![t].pc = "done"]
    /\ running' = 0

InitLoop ==
    LoopInit /\ WalkIdle /\ FetchIdle /\ TreeIdle /\ SelectIdle /\ HarvestIdle /\ ServeIdle

NextLoop ==
    /\ \E t \in Tasks :
          Arrive(t) \/ Start(t) \/ QuotaCheck(t) \/ BeginCall(t) \/ CallReturns(t)
              \/ Finish(t)
    /\ UNCHANGED <<fetchVars, treeVars, selectVars, harvestVars, serveVars, walkVars>>

SpecLoop == InitLoop /\ [][NextLoop]_vars

(***************************************************************************)
(* Reading a walked structure.                                             *)
(***************************************************************************)
Missing == [missing |-> TRUE]

Children(node) ==
    IF "directories" \in DOMAIN node THEN node.directories ELSE EmptyDict

RECURSIVE NodeAt(_, _)
NodeAt(node, p) ==
    IF p = <<>> THEN node
    ELSE IF Head(p) \in DOMAIN Children(node)
    THEN NodeAt(Children(node)[Head(p)], Tail(p))
    ELSE Missing

SetMax(S) == CHOOSE m \in S : \A x \in S : x <= m

RECURSIVE NodeHeight(_)
NodeHeight(node) ==
    IF DOMAIN Children(node) = {} THEN 0
    ELSE 1 + SetMax({NodeHeight(Children(node)[n]) : n \in DOMAIN Children(node)})

Parent(p) == SubSeq(p, 1, Len(p) - 1)

\* p names a directory of the hosted repository
IsRemoteDir(rem, p) == p \in DOMAIN rem

\* every directory above p was listed without failure
AncestorsListed(fl, p) == \A k \in 0..(Len(p) - 1) : SubSeq(p, 1, k) \notin fl

WalkRan == walked # NotCalled /\ <<>> \notin failing

(***************************************************************************)
(* C6: with the root at depth 0, the walked tree has no node deeper than   *)
(* max_depth, and every directory of the repository at depth exactly       *)
(* max_depth whose ancestors were listed is in the tree as the empty node. *)
(***************************************************************************)
C6_DepthBounded ==
    WalkRan =>
        /\ NodeHeight(walked.structure) <= depth_arg
        /\ \A p \in DirPaths :
              (Len(p) = depth_arg /\ NodeAt(walked.structure, p) # Missing)
                  => NodeAt(walked.structure, p) = EmptyNode
        /\ \A p \in DirPaths :
              (Len(p) = depth_arg /\ IsRemoteDir(remote, p) /\ AncestorsListed(failing, p))
                  => NodeAt(walked.structure, p) = EmptyNode

\* a repository deeper than max_depth, with files in the cut-off directory
C6_Witness ==
    /\ WalkRan
    /\ failing = {}
    /\ depth_arg >= 1
    /\ \E p \in DirPaths :
          /\ Len(p) = depth_arg
          /\ IsRemoteDir(remote, p)
          /\ \E i \in DOMAIN remote[p] : remote[p][i].type = "dir"
          /\ \E i \in DOMAIN remote[p] : remote[p][i].type = "file"
          /\ NodeAt(walked.structure, p) = EmptyNode

(***************************************************************************)
(* C7: when the listing of one subdirectory fails, the walk still returns, *)
(* the subdirectory is in the tree as the empty node, and each sibling is  *)
(* listed and has the subtree it has when that listing does not fail.      *)
(***************************************************************************)
ListingAttempted(p) ==
    /\ p # <<>>
    /\ Len(p) <= depth_arg
    /\ IsRemoteDir(remote, p)
    /\ AncestorsListed(failing, p)

Siblings(p) ==
    {q \in DirPaths : q # <<>> /\ q # p /\ Parent(q) = Parent(p) /\ IsRemoteDir(remote, q)}

C7_SubtreeFaultIsolation ==
    WalkRan =>
        \A p \in failing :
            ListingAttempted(p) =>
                /\ walked.exc = ""
                /\ NodeAt(walked.structure, p) = EmptyNode
                /\ \A q \in Siblings(p) :
                      /\ q \in Range(walked.calls)
                      /\ NodeAt(walked.structure, q) =
                            NodeAt(GetRepositoryStructure(remote, failing \ {p},
                                                          depth_arg).structure, q)

\* the first directory of the root fails and the one after it is walked
C7_Witness ==
    /\ WalkRan
    /\ failing = {<<"a">>}
    /\ ListingAttempted(<<"a">>)
    /\ <<"b">> \in Siblings(<<"a">>)
    /\ NodeAt(walked.structure, <<"b">>) \notin {Missing, EmptyNode}
    /\ NodeAt(walked.structure, <<"a">>) = EmptyNode

(***************************************************************************)
(* C8: a fetched file whose reported size is above max_size gives the      *)
(* too-large sentinel with that size and is never handed to the decoder;   *)
(* at size = max_size it is decoded (base64) or returned as it is.         *)
(***************************************************************************)
C8_SizeCeiling ==
    (fetched # NotCalled /\ ~file.raises) =>
        /\ file.size > max_size =>
              /\ fetched.exc = ""
              /\ fetched.value = TooLarge(file.size)
              /\ ~fetched.decoded
        /\ file.size = max_size =>
              /\ fetched.value.kind # "too_large"
              /\ file.encoding = "base64" => fetched.decoded
              /\ file.encoding # "base64" => fetched.value = Text(file.content)

\* a decodable base64 file one byte above the default ceiling
C8_Witness ==
    /\ fetched # NotCalled
    /\ ~file.raises
    /\ max_size = DefaultMaxSize
    /\ file.size = DefaultMaxSize + 1
    /\ file.encoding = "base64"
    /\ B64Decode(file.content).exc = ""
    /\ Utf8DecodeIgnore(B64Decode(file.content).bytes, 1) # <<>>
    /\ fetched.value = TooLarge(DefaultMaxSize + 1)

(***************************************************************************)
(* C9: for content that is not valid text (base64 that does not decode, or *)
(* bytes that are not UTF-8) the fetch returns text or a sentinel and      *)
(* does not raise.                                                         *)
(***************************************************************************)
Utf8Len(cp) == IF cp < 128 THEN 1 ELSE IF cp < 2048 THEN 2 ELSE IF cp < 65536 THEN 3 ELSE 4

RECURSIVE SumLens(_)
SumLens(cps) == IF cps = <<>> THEN 0 ELSE Utf8Len(Head(cps)) + SumLens(Tail(cps))

ValidUtf8(bytes) == SumLens(Utf8DecodeIgnore(bytes, 1)) = Len(bytes)

NotValidText(f) ==
    /\ ~f.raises
    /\ f.encoding = "base64"
    /\ \/ B64Decode(f.content).exc # ""
       \/ ~ValidUtf8(B64Decode(f.content).bytes)

C9_InvalidTextGivesContent ==
    (fetched # NotCalled /\ NotValidText(file)) =>
        /\ fetched.exc = ""
        /\ fetched.value.kind \in {"text", "binary", "too_large"}

(***************************************************************************)
(* C10: the selection returns at most max_files records, none when         *)
(* max_files <= 0, and the records follow the order of the listing with    *)
(* no listing entry taken twice.                                           *)
(***************************************************************************)
\* the listing position of the entry a record was made from
PosIn(tree, path) == CHOOSE i \in DOMAIN tree : tree[i].path = path

C10_SelectionBounded ==
    selected # NotCalled =>
        /\ Len(selected.files) <= (IF files_arg > 0 THEN files_arg ELSE 0)
        /\ \A k \in DOMAIN selected.files :
              selected.files[k].path \in PathsOf(git_tree.tree)
        /\ \A j, k \in DOMAIN selected.files :
              j < k => PosIn(git_tree.tree, selected.files[j].path)
                        < PosIn(git_tree.tree, selected.files[k].path)

\* three fetchable important files listed, two asked for, two returned
C10_Witness ==
    /\ selected # NotCalled
    /\ files_arg = 2
    /\ Len(git_tree.tree) = 3
    /\ \A i \in DOMAIN git_tree.tree :
          /\ git_tree.tree[i].type = "blob"
          /\ IsImportant(git_tree.tree[i].path)
          /\ ContentAccepted(GetFileContentSafe(contents_of[git_tree.tree[i].path],
                                                DefaultMaxSize))
    /\ Len(selected.files) = 2
    /\ selected.files[1].path = git_tree.tree[1].path
    /\ selected.files[2].path = git_tree.tree[2].path

(***************************************************************************)
(* Reading what a served call handed back.                                 *)
(***************************************************************************)
Served == pc = "returned"

\* the try body of handle_call_tool ended in an exception
CallFailed == returned.inner.exc # ""

ReturnedText == returned.content[1].text

\* no hosting-API call, no AI call and no quota check
NothingInvoked == returned.inner.calls = <<>>

(***************************************************************************)
(* C1: whatever the tool name, the arguments and the outcome of the        *)
(* handler (a value, or an exception from routing, argument extraction,    *)
(* execution or serialization), handle_call_tool returns exactly one text  *)
(* item and lets no exception out to the serving loop, and after a failed  *)
(* call the loop can take the next request.                                *)
(***************************************************************************)
C1_AlwaysOneTextItem ==
    /\ pc # "crashed"
    /\ Served =>
          /\ returned.exc = ""
          /\ Len(returned.content) = 1
          /\ returned.content[1].type = "text"
          /\ DOMAIN ReturnedText \in {{"json"}, {"plain", "message"}}
          /\ ENABLED Reply
    /\ pc = "idle" => ENABLED Receive

\* a call whose result cannot be serialized, served right after a failed call
C1_Witness ==
    /\ Served
    /\ prev_failed
    /\ returned.inner.exc = "TypeError"
    /\ Len(returned.content) = 1

(***************************************************************************)
(* C2: a call whose name is not one of the ten registered names, a         *)
(* registered prefix notwithstanding, ends in an error result and makes no *)
(* hosting-API call, no AI call and no quota check.                        *)
(***************************************************************************)
C2_UnregisteredNeverInvokes ==
    (Served /\ name \notin ListedNames) => (CallFailed /\ NothingInvoked)

(***************************************************************************)
(* C3: a call to a registered tool whose arguments lack one of the tool's  *)
(* required arguments ends in an error result, and makes no hosting-API    *)
(* call, no AI call and no quota check.                                    *)
(***************************************************************************)
C3_MissingRequiredShortCircuits ==
    Served =>
        \A t \in ListedTools :
            (name = t.name /\ t.required \ DOMAIN arguments # {})
                => /\ CallFailed
                   /\ NothingInvoked
                   /\ "plain" \in DOMAIN ReturnedText

\* create_issue with owner and repo and without title
C3_Witness ==
    /\ Served
    /\ name = StrGithubPrefix \o StrCreateIssue
    /\ {"owner", "repo"} \subseteq DOMAIN arguments
    /\ "title" \notin DOMAIN arguments
    /\ returned.inner.exc = "KeyError"
    /\ NothingInvoked

C5_OnlyLookupIsFatal ==
    harvested # NotCalled =>
        /\ harvested.exc # "" => "get_repo" \in hub_failing
        /\ harvested.exc = "" =>
              /\ "get_languages" \in hub_failing =>
                    harvested.value.repository_info.languages = EmptyDict
              /\ "get_topics" \in hub_failing =>
                    harvested.value.repository_info.topics = <<>>
              /\ "get_commits" \in hub_failing =>
                    harvested.value.recent_activity.commits = <<>>
              /\ "get_issues" \in hub_failing =>
                    harvested.value.recent_activity.issues = <<>>
              /\ "get_pulls" \in hub_failing =>
                    harvested.value.recent_activity.pull_requests = <<>>
              /\ "get_contributors" \in hub_failing =>
                    harvested.value.contributors = <<>>
              /\ "get_releases" \in hub_failing =>
                    harvested.value.releases = <<>>
              /\ <<>> \in failing => harvested.value.structure = EmptyDict
              /\ (include_content /\ git_tree.raises) =>
                    harvested.value.code_files = <<>>

\* the calls of a harvest, in the order it made them
HarvestCalls == harvested.calls

IsFileFetch(call) == call.op = "get_contents" /\ "file" \in DOMAIN call

(***************************************************************************)
(* C11: a harvest run with include_content = false never asks for the      *)
(* recursive listing, fetches no content of a listed file (the only file   *)
(* fetches it makes are those of the README candidates, after the          *)
(* contributors call), and returns an empty code_files.                    *)
(***************************************************************************)
C11_NoContentWhenNotIncluded ==
    (harvested # NotCalled /\ ~include_content) =>
        /\ \A i \in DOMAIN HarvestCalls : HarvestCalls[i].op # "get_git_tree"
        /\ \A i \in DOMAIN HarvestCalls :
              IsFileFetch(HarvestCalls[i]) =>
                  /\ HarvestCalls[i].file \in Range(ReadmeFiles)
                  /\ \E j \in 1..(i - 1) : HarvestCalls[j].op = "get_contributors"
        /\ harvested.exc = "" => harvested.value.code_files = <<>>

\* a repository whose listing holds files the selection would take
C11_Witness ==
    /\ harvested # NotCalled
    /\ ~include_content
    /\ harvested.exc = ""
    /\ ~git_tree.raises
    /\ \E i \in DOMAIN git_tree.tree :
          /\ git_tree.tree[i].type = "blob"
          /\ IsImportant(git_tree.tree[i].path)
          /\ ~contents_of[git_tree.tree[i].path].raises
    /\ harvested.value.code_files = <<>>

\* the call being served reached this client operation
Invoked(op) ==
    /\ ~Route(name).unknown
    /\ Route(name).op = op
    /\ MissingKeys(arguments, Route(name).subscripts) = <<>>

\* the harvest that combined repository analysis runs, on its own
CombinedHarvest == AnalyzeRepository(Hub, TRUE, DefaultMaxFiles)

(***************************************************************************)
(* C12: in combined repository analysis, when the harvest succeeds and the *)
(* generation call of the AI service then raises, the call ends in an      *)
(* error result whose text is the error message alone: the handler has no  *)
(* value and the harvested data appears nowhere in what is returned.       *)
(***************************************************************************)
C12_AiFailureFailsCombinedAnalysis ==
    (/\ Served
     /\ Invoked("analysis.comprehensive_repo_analysis")
     /\ CombinedHarvest.exc = ""
     /\ ~unserializable
     /\ "generate_content" \in ai_failing)
        => /\ CallFailed
           /\ returned.inner.value = None
           /\ Len(returned.content) = 1
           /\ ReturnedText = ErrorText(Message("generate_content"))

\* the harvest made its calls, then generate_content raised
C12_Witness ==
    /\ Served
    /\ name = StrAnalysisPrefix \o StrComprehensiveRepoAnalysis
    /\ CombinedHarvest.exc = ""
    /\ CombinedHarvest.value.code_files # <<>>
    /\ ai_failing = {"generate_content"}
    /\ \E i \in DOMAIN returned.inner.calls : returned.inner.calls[i] = Call("get_repo")
    /\ returned.inner.calls[Len(returned.inner.calls)].ai = "generate_content"
    /\ CallFailed

\* the entries of the hosting API's listing that are issues, in listing order
ListedIssues == SelectSeq(issues, LAMBDA issue : ~issue.pull_request)

\* what the generation call of the call being served had in its prompt
TriagePrompt == returned.inner.calls[Len(returned.inner.calls)].prompt

TriageSucceeded ==
    /\ Served
    /\ Invoked("analysis.smart_issue_triage")
    /\ ~CallFailed

(***************************************************************************)
(* C13 as the specification has it: issue triage fetches every open issue  *)
(* that is no pull request among all the hosting API lists, and that list  *)
(* is both what the AI call is given and what is returned as `issues`.     *)
(***************************************************************************)
C13_TriageTakesEveryIssue ==
    TriageSucceeded =>
        /\ returned.inner.value.issues = ListedIssues
        /\ TriagePrompt = returned.inner.value.issues

(***************************************************************************)
(* C13, amended: issue triage examines the first 50 entries the hosting    *)
(* API lists, pull requests counting towards the 50, and takes those among *)
(* them that are no pull requests, in listing order; that list is both     *)
(* what the AI call is given and what is returned as `issues`.             *)
(***************************************************************************)
C13_TriageTakesFirstFifty ==
    TriageSucceeded =>
        LET out == returned.inner.value.issues IN
        /\ \A k \in DOMAIN issues :
              (\E j \in DOMAIN out : out[j] = issues[k])
                  <=> (k <= 50 /\ ~issues[k].pull_request)
        /\ \A i, j \in DOMAIN out : i < j => out[i].number < out[j].number
        /\ TriagePrompt = out

\* 52 open entries listed, the 51st an issue that is left out
C13_Witness ==
    /\ TriageSucceeded
    /\ Len(issues) > 50
    /\ ~issues[51].pull_request
    /\ Len(returned.inner.value.issues) = 48
    /\ TriagePrompt = returned.inner.value.issues

\* expected_tools of test_server_tools, as spelled there
ExpectedTools ==
    {
      \* "github_analyze_repository"
      << 103, 105, 116, 104, 117, 98, 95, 97, 110, 97, 108, 121, 122, 101,
         95, 114, 101, 112, 111, 115, 105, 116, 111, 114, 121 >>,
      \* "github_search_code"
      << 103, 105, 116, 104, 117, 98, 95, 115, 101, 97, 114, 99, 104, 95,
         99, 111, 100, 101 >>,
      \* "github_get_file_content"
      << 103, 105, 116, 104, 117, 98, 95, 103, 101, 116, 95, 102, 105, 108,
         101, 95, 99, 111, 110, 116, 101, 110, 116 >>,
      \* "github_get_issues"
      << 103, 105, 116, 104, 117, 98, 95, 103, 101, 116, 95, 105, 115, 115,
         117, 101, 115 >>,
      \* "github_create_issue"
      << 103, 105, 116, 104, 117, 98, 95, 99, 114, 101, 97, 116, 101, 95,
         105, 115, 115, 117, 101 >>,
      \* "gemini_analyze_code"
      << 103, 101, 109, 105, 110, 105, 95, 97, 110, 97, 108, 121, 122, 101,
         95, 99, 111, 100, 101 >>,
      \* "gemini_suggest_improvements"
      << 103, 101, 109, 105, 110, 105, 95, 115, 117, 103, 103, 101, 115,
         116, 95, 105, 109, 112, 114, 111, 118, 101, 109, 101, 110, 116,
         115 >>,
      \* "gemini_generate_documentation"
      << 103, 101, 109, 105, 110, 105, 95, 103, 101, 110, 101, 114, 97,
         116, 101, 95, 100, 111, 99, 117, 109, 101, 110, 116, 97, 116, 105,
         111, 110 >>,
      \* "analysis_comprehensive_repo_analysis"
      << 97, 110, 97, 108, 121, 115, 105, 115, 95, 99, 111, 109, 112, 114,
         101, 104, 101, 110, 115, 105, 118, 101, 95, 114, 101, 112, 111,
         95, 97, 110, 97, 108, 121, 115, 105, 115 >>,
      \* "analysis_smart_issue_triage"
      << 97, 110, 97, 108, 121, 115, 105, 115, 95, 115, 109, 97, 114, 116,
         95, 105, 115, 115, 117, 101, 95, 116, 114, 105, 97, 103, 101 >> }

\* the call being served names a listed tool and has all its required arguments
ListedCallComplete ==
    \E t \in ListedTools : name = t.name /\ t.required \subseteq DOMAIN arguments

(***************************************************************************)
(* C14: the tool listing holds exactly the ten expected names, and a call  *)
(* that names a listed tool and has all its required arguments is routed   *)
(* to a client operation: it never ends in an unknown-tool error.          *)
(***************************************************************************)
C14_ListedToolsAreRouted ==
    /\ ListedNames = ExpectedTools
    /\ Cardinality(ListedNames) = 10
    /\ (Served /\ ListedCallComplete) =>
          /\ ~Route(name).unknown
          /\ returned.inner.exc # "ValueError"
          /\ "name" \notin DOMAIN returned.inner.message
          /\ returned.inner.calls # <<>>

\* the last tool of the listing, called with owner and repo, answers
C14_Witness ==
    /\ Served
    /\ name \in ExpectedTools
    /\ name = StrAnalysisPrefix \o StrSmartIssueTriage
    /\ ListedCallComplete
    /\ ~CallFailed

QuotaChecks == SelectSeq(HarvestCalls, LAMBDA call : call.op = "check_rate_limit")

(***************************************************************************)
(* C15: the quota check never raises and never refuses: it is the first    *)
(* thing a harvest does, it delays exactly when remaining < 100, once, and *)
(* in both cases the repository lookup it guards is made right after it.   *)
(***************************************************************************)
C15_QuotaCheckIsAdvisory ==
    harvested # NotCalled =>
        /\ Len(HarvestCalls) >= 2
        /\ DOMAIN HarvestCalls[1] = {"op", "delayed"}
        /\ HarvestCalls[1].op = "check_rate_limit"
        /\ HarvestCalls[1].delayed <=> (rate_limit_remaining < 100)
        /\ Len(QuotaChecks) = 1
        /\ HarvestCalls[2] = [op |-> "get_repo"]
        /\ harvested.exc # "" => (hub_failing \cap {"get_repo", "get_topics"}) # {}

\* a budget of 99: the check delays and the harvest goes on to its end
C15_Witness ==
    /\ harvested # NotCalled
    /\ rate_limit_remaining = 99
    /\ HarvestCalls[1].delayed
    /\ HarvestCalls[2] = [op |-> "get_repo"]
    /\ harvested.exc = ""

\* the calls of a harvest that go to the hosting API
IsHubCall(call) == call.op # "check_rate_limit"

(***************************************************************************)
(* C16: the quota state is read by the quota check before each hosting-API *)
(* call, and its remaining counter is updated after each hosting-API call. *)
(***************************************************************************)
C16_QuotaFollowsCalls ==
    harvested # NotCalled =>
        /\ \A i \in DOMAIN HarvestCalls :
              IsHubCall(HarvestCalls[i]) =>
                  (i > 1 /\ HarvestCalls[i - 1].op = "check_rate_limit")
        /\ (\E i \in DOMAIN HarvestCalls : IsHubCall(HarvestCalls[i]))
              => rate_limit_remaining # InitialRateLimit

(***************************************************************************)
(* C17: for a file whose reported size is above max_size the content fetch *)
(* returns the too-large sentinel and no content of the file has come from *)
(* the hosting API: the size is checked before the content is retrieved.   *)
(***************************************************************************)
C17_TooLargeNeverRetrieved ==
    (fetched # NotCalled /\ ~file.raises /\ file.size > max_size) =>
        /\ fetched.value = TooLarge(file.size)
        /\ fetched.received = <<>>

\* the last component of a path: what follows its last "/"
RECURSIVE FileName(_)
FileName(path) ==
    IF \E i \in DOMAIN path : path[i] = 47
    THEN FileName(Tail(path))
    ELSE path

Listed == git_tree.tree

SelectionRan == selected # NotCalled /\ ~git_tree.raises

(***************************************************************************)
(* C18: a listed blob whose file name, the last component of its path, is  *)
(* a member of the significant-file set satisfies the selection predicate, *)
(* in whatever directory it lies.                                          *)
(***************************************************************************)
C18_SignificantNameAnywhere ==
    SelectionRan =>
        \A i \in DOMAIN Listed :
            (Listed[i].type = "blob" /\ FileName(Listed[i].path) \in ImportantFiles)
                => IsImportant(Listed[i].path)

\* the entry at listing position p gets a record when the loop reaches it
Accepted(p) ==
    /\ Listed[p].type = "blob"
    /\ IsImportant(Listed[p].path)
    /\ ContentAccepted(GetFileContentSafe(contents_of[Listed[p].path], DefaultMaxSize))

(***************************************************************************)
(* C19: selection is first-N in listing order. Once max_files records are  *)
(* accepted, no entry after the last accepted one is inspected or fetched, *)
(* and the records are those of the first max_files acceptable entries:    *)
(* no acceptable entry up to the last accepted one is missing. With        *)
(* max_files <= 0 nothing is inspected and nothing is fetched.             *)
(***************************************************************************)
C19_FirstNInListingOrder ==
    SelectionRan =>
        /\ files_arg <= 0 => (selected.inspected = <<>> /\ selected.calls = <<>>)
        /\ (files_arg > 0 /\ Len(selected.files) = files_arg) =>
              LET last == PosIn(Listed, selected.files[files_arg].path) IN
              /\ \A k \in DOMAIN selected.inspected : selected.inspected[k] <= last
              /\ \A k \in DOMAIN selected.calls :
                    PosIn(Listed, selected.calls[k]) <= last
              /\ \A q \in 1..last :
                    Accepted(q) <=>
                        \E j \in DOMAIN selected.files :
                            selected.files[j].path = Listed[q].path

\* one file asked for: "src/main.py", taken by its extension, comes first
\* and "README.md", a significant name, comes after it and is never looked at
C19_Witness ==
    /\ SelectionRan
    /\ files_arg = 1
    /\ Len(Listed) >= 2
    /\ Accepted(1)
    /\ Listed[1].path \notin ImportantFiles
    /\ Listed[2].path \in ImportantFiles
    /\ Accepted(2)
    /\ Len(selected.files) = 1
    /\ selected.files[1].path = Listed[1].path
    /\ selected.inspected = <<1>>
    /\ selected.calls = <<Listed[1].path>>

\* one of the three rules holds of the path
MatchesSomeRule(path) ==
    \/ FileName(path) \in ImportantFiles
    \/ \E ext \in ImportantExtensions : EndsWith(path, ext)
    \/ Contains(Lower(path), <<116, 101, 115, 116>>)
    \/ Contains(Lower(path), <<115, 112, 101, 99>>)

Selectable(path) ==
    \E i \in DOMAIN Listed :
        /\ Listed[i].path = path
        /\ Listed[i].type = "blob"
        /\ MatchesSomeRule(path)

(***************************************************************************)
(* C20: every record of the selection, and every content fetch it issues,  *)
(* is for a listed blob that matches one of the three rules: a significant *)
(* file name, a significant extension, or a path holding "test" or "spec"  *)
(* in any letter case.                                                     *)
(***************************************************************************)
C20_OnlyMatchingBlobs ==
    SelectionRan =>
        /\ \A k \in DOMAIN selected.files : Selectable(selected.files[k].path)
        /\ \A k \in DOMAIN selected.calls : Selectable(selected.calls[k])

\* a tree entry and a blob matching no rule are passed over, and the
\* fetchable blob after them is taken
C20_Witness ==
    /\ SelectionRan
    /\ Len(Listed) = 3
    /\ Listed[1].type = "tree"
    /\ Listed[2].type = "blob"
    /\ ~MatchesSomeRule(Listed[2].path)
    /\ ~contents_of[Listed[2].path].raises
    /\ Accepted(3)
    /\ files_arg = 2
    /\ selected.inspected = <<1, 2, 3>>
    /\ selected.calls = <<Listed[3].path>>
    /\ Len(selected.files) = 1

\* the listed entries whose content call raises and that the predicate takes
FetchFails(item) ==
    /\ item.type = "blob"
    /\ IsImportant(item.path)
    /\ contents_of[item.path].raises

\* the listing without those entries
WithoutFailedFetches ==
    [raises |-> FALSE, tree |-> SelectSeq(Listed, LAMBDA item : ~FetchFails(item))]

\* the calls of the harvest's file selection: from the recursive listing up
\* to the contributors call
SelectionCalls ==
    LET first == CHOOSE i \in DOMAIN HarvestCalls : HarvestCalls[i].op = "get_git_tree"
        last == CHOOSE i \in DOMAIN HarvestCalls : HarvestCalls[i].op = "get_contributors"
    IN  SubSeq(HarvestCalls, first, last - 1)

\* a harvest that selects files and in which only content fetches may fail fatally
HarvestSelects ==
    /\ harvested # NotCalled
    /\ include_content
    /\ ~git_tree.raises
    /\ "get_repo" \notin hub_failing
    /\ "get_topics" \notin hub_failing

(***************************************************************************)
(* C21: when the content call of a selected file raises, the harvest still *)
(* returns its snapshot, that file was asked for exactly once and has no   *)
(* record, and code_files is what the selection gives for the listing      *)
(* without the failed files: every other file is there as it would be.     *)
(***************************************************************************)
C21_FetchFailureSkipsOneFile ==
    HarvestSelects =>
        \A p \in DOMAIN Listed :
            FetchFails(Listed[p]) =>
                /\ harvested.exc = ""
                /\ Cardinality({k \in DOMAIN SelectionCalls :
                                   /\ IsFileFetch(SelectionCalls[k])
                                   /\ SelectionCalls[k].file = Listed[p].path}) = 1
                /\ \A j \in DOMAIN harvested.value.code_files :
                      harvested.value.code_files[j].path # Listed[p].path
                /\ harvested.value.code_files =
                      GetImportantFiles(WithoutFailedFetches, contents_of, files_arg).files
                /\ \A q \in DOMAIN Listed :
                      (q # p /\ Accepted(q)) =>
                          \E j \in DOMAIN harvested.value.code_files :
                              harvested.value.code_files[j].path = Listed[q].path

\* the first listed file fails and the second, listed after it, is recorded
C21_Witness ==
    /\ HarvestSelects
    /\ Len(Listed) = 2
    /\ FetchFails(Listed[1])
    /\ Accepted(2)
    /\ harvested.exc = ""
    /\ Len(harvested.value.code_files) = 1
    /\ harvested.value.code_files[1].path = Listed[2].path

\* the place, in the order of the claim, of the stage the i-th call belongs
\* to; a file fetch is the selection's before the contributors call and a
\* README candidate's after it
StageRank(i) ==
    LET call == HarvestCalls[i] IN
    CASE call.op = "check_rate_limit" -> 0
      [] call.op \in {"get_repo", "get_languages", "get_topics"} -> 1
      [] call.op = "get_contents" /\ "dir" \in DOMAIN call -> 2
      [] call.op = "get_commits" -> 3
      [] call.op = "get_issues" -> 4
      [] call.op = "get_pulls" -> 5
      [] call.op = "get_git_tree" -> 6
      [] IsFileFetch(call) ->
            IF \E j \in 1..(i - 1) : HarvestCalls[j].op = "get_contributors"
            THEN 8 ELSE 6
      [] call.op = "get_contributors" -> 7
      [] call.op = "get_releases" -> 9

(***************************************************************************)
(* C22: the calls of one harvest form a single sequence, each call         *)
(* answered or failed before the next is made, and the sequence follows    *)
(* the stage order: lookup and metadata (the lookup first), directory      *)
(* listings, commits, issues, pull requests, the recursive listing and     *)
(* then the selected files' content (only with include_content),           *)
(* contributors, README candidates, releases.                              *)
(***************************************************************************)
C22_StagesInOrder ==
    harvested # NotCalled =>
        /\ HarvestCalls[1].op = "check_rate_limit"
        /\ \A i, j \in DOMAIN HarvestCalls : i < j => StageRank(i) <= StageRank(j)
        /\ \A i \in DOMAIN HarvestCalls :
              /\ StageRank(i) >= 1 => HarvestCalls[2].op = "get_repo"
              /\ StageRank(i) = 6 => include_content
              /\ (StageRank(i) = 6 /\ IsFileFetch(HarvestCalls[i])) =>
                    /\ \E j \in 1..(i - 1) : HarvestCalls[j].op = "get_git_tree"
                    /\ HarvestCalls[i].file \in PathsOf(Listed)
              /\ StageRank(i) = 8 => HarvestCalls[i].file \in Range(ReadmeFiles)
        /\ \A i, j \in DOMAIN HarvestCalls :
              (i # j /\ ~IsFileFetch(HarvestCalls[i]) /\ HarvestCalls[i].op # "get_contents")
                  => HarvestCalls[i] # HarvestCalls[j]

\* a harvest in which every stage makes a call
C22_Witness ==
    /\ harvested # NotCalled
    /\ harvested.exc = ""
    /\ include_content
    /\ {StageRank(i) : i \in DOMAIN HarvestCalls} = 0..9
    /\ \E i \in DOMAIN HarvestCalls : IsFileFetch(HarvestCalls[i]) /\ StageRank(i) = 6
    /\ HarvestCalls[Len(HarvestCalls)].op = "get_releases"

\* a RepositoryNode: a files list and a directories mapping of such nodes
RECURSIVE WellFormedNode(_)
WellFormedNode(node) ==
    /\ "files" \in DOMAIN node
    /\ "directories" \in DOMAIN node
    /\ \A n \in DOMAIN Children(node) : WellFormedNode(Children(node)[n])

(***************************************************************************)
(* C27: the structure field of every snapshot a harvest returns is a       *)
(* well-formed node, with a files list and a directories mapping at every  *)
(* level, also when the listing of the root raised.                        *)
(***************************************************************************)
C27_StructureWellFormed ==
    (harvested # NotCalled /\ harvested.exc = "") =>
        WellFormedNode(harvested.value.structure)

\* the content call for the entry at listing position p returned content
FetchReturned(p) ==
    LET r == GetFileContentSafe(contents_of[Listed[p].path], DefaultMaxSize) IN
    r.exc = "" /\ r.value # None

(***************************************************************************)
(* C28: every listed blob that satisfies the predicate, that the loop      *)
(* reaches before max_files records are accepted, and whose content fetch  *)
(* returns content has a record in the result, the content being the empty *)
(* string included.                                                        *)
(***************************************************************************)
C28_EveryFetchedFileRecorded ==
    SelectionRan =>
        \A k \in DOMAIN selected.inspected :
            LET p == selected.inspected[k] IN
            (Listed[p].type = "blob" /\ IsImportant(Listed[p].path) /\ FetchReturned(p))
                => \E j \in DOMAIN selected.files :
                      selected.files[j].path = Listed[p].path

(***************************************************************************)
(* C29: one run of the selection issues at most max_files content fetches  *)
(* (none when max_files is not positive), however the fetches end.         *)
(***************************************************************************)
C29_FetchesWithinMaxFiles ==
    SelectionRan =>
        Len(selected.calls) <= (IF files_arg > 0 THEN files_arg ELSE 0)

(***************************************************************************)
(* C30: the walk lists a directory only if its node can be populated, that *)
(* is only if the directory lies at a depth below max_depth (the root at   *)
(* depth 0), so that it makes at most one listing call more than there are *)
(* directories at such depths.                                             *)
(***************************************************************************)
C30_ListsOnlyPopulatedDirectories ==
    walked # NotCalled =>
        /\ \A k \in DOMAIN walked.calls : Len(walked.calls[k]) < depth_arg
        /\ Len(walked.calls) <=
              1 + Cardinality({p \in DOMAIN remote : Len(p) < depth_arg})

\* the calls of the call being served, in the order they were made
ServedCalls == returned.inner.calls

IsAiCall(call) == "ai" \in DOMAIN call

CombinedAnalysisServed == Served /\ Invoked("analysis.comprehensive_repo_analysis")

(***************************************************************************)
(* C23: combined repository analysis runs the harvest with                 *)
(* include_content = true whatever the arguments say; every AI call comes  *)
(* after all the harvest's calls and the generation call is given the      *)
(* harvest's snapshot; when the harvest fails no AI call is made and the   *)
(* call fails; on success the value is that snapshot as repository_data    *)
(* with the AI output as ai_analysis.                                      *)
(***************************************************************************)
C23_HarvestThenAnalysis ==
    CombinedAnalysisServed =>
        LET made == Len(CombinedHarvest.calls) IN
        /\ Len(ServedCalls) >= made
        /\ SubSeq(ServedCalls, 1, made) = CombinedHarvest.calls
        /\ \A i \in DOMAIN ServedCalls : IsAiCall(ServedCalls[i]) <=> i > made
        /\ CombinedHarvest.exc # "" => (Len(ServedCalls) = made /\ CallFailed)
        /\ \A i \in DOMAIN ServedCalls :
              (IsAiCall(ServedCalls[i]) /\ ServedCalls[i].ai = "generate_content")
                  => ServedCalls[i].prompt = CombinedHarvest.value
        /\ ~CallFailed =>
              /\ CombinedHarvest.exc = ""
              /\ returned.inner.value =
                    [repository_data |-> CombinedHarvest.value,
                     ai_analysis |-> RemoteData("ai_text")]

\* a call that asks for include_content = false and gets the files all the same
C23_Witness ==
    /\ CombinedAnalysisServed
    /\ "include_content" \in DOMAIN arguments
    /\ arguments["include_content"] = FALSE
    /\ ~CallFailed
    /\ returned.inner.value.repository_data.code_files # <<>>
    /\ \E i \in DOMAIN ServedCalls : ServedCalls[i] = Call("get_git_tree")
    /\ ServedCalls[Len(ServedCalls)].prompt = returned.inner.value.repository_data

\* the two clients as they are when the process starts
FreshHub == [Hub EXCEPT !.remaining = InitialRateLimit]

(***************************************************************************)
(* C25: tool calls leave nothing behind in the clients. Whatever calls     *)
(* were served before, the AI client's cache store is empty, and what a    *)
(* call returns is what newly made clients return for the same name and    *)
(* arguments against the same remote state.                                *)
(***************************************************************************)
C25_NothingKeptAcrossCalls ==
    /\ cache_store = EmptyDict
    /\ Served => returned = HandleCallTool(name, arguments, FreshHub)

\* after an earlier call, a combined analysis has harvested files and
\* registered a cached content, and the store holds nothing
C25_Witness ==
    /\ prev_failed
    /\ CombinedAnalysisServed
    /\ ~CallFailed
    /\ returned.inner.value.repository_data.code_files # <<>>
    /\ \E i \in DOMAIN ServedCalls : ServedCalls[i] = AiCall("caches.create")
    /\ "caches.create" \notin ai_failing
    /\ cache_store = EmptyDict

\* the most "dir" entries any one listing of the repository holds
Fanout ==
    SetMax({Cardinality({i \in DOMAIN remote[p] : remote[p][i].type = "dir"}) :
               p \in DOMAIN remote})

RECURSIVE Power(_, _)
Power(b, e) == IF e = 0 THEN 1 ELSE b * Power(b, e - 1)

RECURSIVE SumOfPowers(_, _)
SumOfPowers(b, e) == IF e = 0 THEN 1 ELSE Power(b, e) + SumOfPowers(b, e - 1)

\* the walk in steps is over
WalkOver == walked # NotCalled /\ frames = <<>>

\* the walk in steps ends as _get_repository_structure does
WalkAgrees == WalkOver => walked = GetRepositoryStructure(remote, failing, depth_arg)

\* some directory lists an entry that is itself or one of the directories above it
SelfReferential ==
    \E p \in DOMAIN remote :
        \E i \in DOMAIN remote[p] :
            remote[p][i].type = "dir" /\ Len(remote[p][i].path) <= Len(p)

(***************************************************************************)
(* C26: the walk is total. Whatever the repository, one that lists itself  *)
(* without end included, as long as every listing call returns or raises   *)
(* the walk makes no more listing calls than a tree of depth max_depth     *)
(* with the repository's widest listing has directories, and it ends with  *)
(* a structure and never with an exception.                                *)
(***************************************************************************)
C26_WalkTerminates ==
    /\ [](Len(listings) <= SumOfPowers(Fanout, depth_arg))
    /\ <>[](WalkOver /\ walked.exc = "")

\* a walk through a directory that lists itself, ended after listing that
\* directory more than once
C26_Witness ==
    /\ WalkOver
    /\ SelfReferential
    /\ failing = {}
    /\ depth_arg >= 2
    /\ Len(listings) > Cardinality(Range(listings))
    /\ NodeHeight(walked.structure) = depth_arg

(***************************************************************************)
(* C24: a tool call that waits in a hosting-API or AI-API call, or is      *)
(* stuck there, holds up nothing but itself: the loop can start another    *)
(* request that is waiting to be served.                                   *)
(***************************************************************************)
C24_WaitingCallBlocksOnlyItself ==
    \A t, u \in Tasks :
        (tasks[t].pc = "in_call" /\ tasks[u].pc = "queued") => CanStart(u)

====
